---- MODULE Spec2Model ----
(***************************************************************************)
(* The scm-slang front end: the grouper and the semantic parser of         *)
(* SchemeParser (transpiler/parser/scheme-parser.ts), driven by the        *)
(* top-level loop of SchemeParser.parse().                                 *)
(*                                                                         *)
(* The parser is a recursive-descent program whose only mutable fields are *)
(* the token cursor `current` and the flag `quoteMode`.  Every method is   *)
(* an operator of the same name that takes the value of the field it reads *)
(* and returns the value it leaves behind, together with the node built or *)
(* the error thrown, and the history of the parseExpression calls made.    *)
(***************************************************************************)
EXTENDS Integers, Sequences, FiniteSets, TLC

(***************************************************************************)
(* Bounds of the model.                                                    *)
(***************************************************************************)
\* longest token sequence (EOF excluded) enumerated exhaustively
MaxLen == 4
\* most tokens enumerated between a leading keyword and the closing delimiter
MaxArgs == 2

(***************************************************************************)
(* Tokens.                                                                 *)
(***************************************************************************)
\* the value of the `chapter` constructor parameter when it is omitted
Infinity == 99

\* enum QuoteMode
QuoteModes == {"NONE", "QUOTE", "QUASIQUOTE"}

\* new Token(type, lexeme, literal, start, end, line, col): one line of
\* source, so a position is its column
Token(type, lexeme, literal, pos) ==
  [k |-> "tok", type |-> type, lexeme |-> lexeme, literal |-> literal,
   pos |-> pos, endPos |-> pos + Len(lexeme) - 1]

isToken(d) == d.k = "tok"
isGroup(d) == d.k = "grp"

\* the lexeme -> token kind table of the scanner that feeds SchemeParser,
\* restricted to the kinds SchemeParser.grouping knows (plus VECTOR, which it
\* does not), with the literal the scanner decodes from the lexeme ("null"
\* when there is none); the backquote character is written ^
Kind ==
  [lp |-> [type |-> "LEFT_PAREN", lexeme |-> "(", literal |-> "null"],
   rp |-> [type |-> "RIGHT_PAREN", lexeme |-> ")", literal |-> "null"],
   lb |-> [type |-> "LEFT_BRACKET", lexeme |-> "[", literal |-> "null"],
   rb |-> [type |-> "RIGHT_BRACKET", lexeme |-> "]", literal |-> "null"],
   dot |-> [type |-> "DOT", lexeme |-> ".", literal |-> "null"],
   hsc |-> [type |-> "HASH_SEMICOLON", lexeme |-> "#;", literal |-> "null"],
   x |-> [type |-> "IDENTIFIER", lexeme |-> "x", literal |-> "null"],
   yy |-> [type |-> "IDENTIFIER", lexeme |-> "yy", literal |-> "null"],
   f |-> [type |-> "IDENTIFIER", lexeme |-> "f", literal |-> "null"],
   n1 |-> [type |-> "NUMBER", lexeme |-> "1", literal |-> "1"],
   tt |-> [type |-> "BOOLEAN", lexeme |-> "#t", literal |-> "true"],
   str |-> [type |-> "STRING", lexeme |-> "\"s\"", literal |-> "s"],
   if |-> [type |-> "IF", lexeme |-> "if", literal |-> "null"],
   let |-> [type |-> "LET", lexeme |-> "let", literal |-> "null"],
   cond |-> [type |-> "COND", lexeme |-> "cond", literal |-> "null"],
   else |-> [type |-> "ELSE", lexeme |-> "else", literal |-> "null"],
   define |-> [type |-> "DEFINE", lexeme |-> "define", literal |-> "null"],
   lambda |-> [type |-> "LAMBDA", lexeme |-> "lambda", literal |-> "null"],
   ap |-> [type |-> "APOSTROPHE", lexeme |-> "'", literal |-> "null"],
   bt |-> [type |-> "BACKTICK", lexeme |-> "^", literal |-> "null"],
   cm |-> [type |-> "COMMA", lexeme |-> ",", literal |-> "null"],
   cmat |-> [type |-> "COMMA_AT", lexeme |-> ",@", literal |-> "null"],
   quote |-> [type |-> "QUOTE", lexeme |-> "quote", literal |-> "null"],
   quasiquote |-> [type |-> "QUASIQUOTE", lexeme |-> "quasiquote",
                   literal |-> "null"],
   unquote |-> [type |-> "UNQUOTE", lexeme |-> "unquote", literal |-> "null"],
   unquotesplicing |-> [type |-> "UNQUOTE_SPLICING",
                        lexeme |-> "unquote-splicing", literal |-> "null"],
   set |-> [type |-> "SET", lexeme |-> "set!", literal |-> "null"],
   begin |-> [type |-> "BEGIN", lexeme |-> "begin", literal |-> "null"],
   delay |-> [type |-> "DELAY", lexeme |-> "delay", literal |-> "null"],
   import |-> [type |-> "IMPORT", lexeme |-> "import", literal |-> "null"],
   export |-> [type |-> "EXPORT", lexeme |-> "export", literal |-> "null"],
   jsimport |-> [type |-> "JS_IMPORT", lexeme |-> "js-import", literal |-> "null"],
   jsexport |-> [type |-> "JS_EXPORT", lexeme |-> "js-export", literal |-> "null"],
   hv |-> [type |-> "HASH_VECTOR", lexeme |-> "#", literal |-> "null"],
   vector |-> [type |-> "VECTOR", lexeme |-> "vector", literal |-> "null"]]

RECURSIVE Column(_, _)
\* the column of the i-th lexeme of a source text whose lexemes are
\* separated by one blank
Column(names, i) ==
  IF i = 1 THEN 1
  ELSE Column(names, i - 1) + Len(Kind[names[i - 1]].lexeme) + 1

\* the token sequence the scanner hands to the parser for the lexemes
\* `names`: one token each, then the EOF token (Tokenizer.scanTokens)
scanTokens(names) ==
  [i \in 1..(Len(names) + 1) |->
     IF i <= Len(names)
     THEN Token(Kind[names[i]].type, Kind[names[i]].lexeme,
                Kind[names[i]].literal, Column(names, i))
     ELSE Token("EOF", "", "null", Column(names, i))]

(***************************************************************************)
(* Errors (parser-error.ts): the kind and the position it is raised at.    *)
(* TypeError is the unstructured failure of the host language.             *)
(***************************************************************************)
NoErr == [kind |-> "none", pos |-> 0]
Error(kind, pos) == [kind |-> kind, pos |-> pos]

ErrorKinds ==
  {"UnexpectedEOF", "UnexpectedForm", "ExpectedForm", "DisallowedToken",
   "UnsupportedToken", "TypeError"}

(***************************************************************************)
(* Group (types/tokens/group.ts).                                          *)
(***************************************************************************)
Group(elements) == [k |-> "grp", elements |-> elements]

\* Group.build, helper matchingParentheses
matchingParentheses(lParen, rParen) ==
  \/ lParen.type = "LEFT_PAREN" /\ rParen.type = "RIGHT_PAREN"
  \/ lParen.type = "LEFT_BRACKET" /\ rParen.type = "RIGHT_BRACKET"

\* Group.build, helper isDataType
isDataType(token) ==
  token.type \in {"IDENTIFIER", "NUMBER", "STRING", "BOOLEAN"}

\* the prefix markers that modify exactly the following datum
isShortAffector(token) ==
  token.type \in {"APOSTROPHE", "BACKTICK", "COMMA", "COMMA_AT", "HASH_VECTOR"}

RECURSIVE firstToken(_)
\* Group.firstToken
firstToken(g) ==
  IF isToken(g.elements[1]) THEN g.elements[1] ELSE firstToken(g.elements[1])

RECURSIVE lastToken(_)
\* Group.lastToken
lastToken(g) ==
  IF isToken(g.elements[Len(g.elements)]) THEN g.elements[Len(g.elements)]
  ELSE lastToken(g.elements[Len(g.elements)])

\* Group.build: the factory that enforces the group invariants; the result is
\* the group built, or the error thrown
GroupBuild(elements) ==
  IF Len(elements) = 0
  THEN [err |-> Error("TypeError", 0), group |-> <<>>]
  ELSE IF Len(elements) = 1
  THEN IF isGroup(elements[1])
       THEN [err |-> NoErr, group |-> <<elements[1]>>]
       ELSE IF ~isDataType(elements[1])
       THEN [err |-> Error("ExpectedForm", elements[1].pos), group |-> <<>>]
       ELSE [err |-> NoErr, group |-> <<Group(elements)>>]
  ELSE IF /\ Len(elements) = 2
          /\ isToken(elements[1])
          /\ isShortAffector(elements[1])
  THEN [err |-> NoErr, group |-> <<Group(elements)>>]
  ELSE IF /\ isToken(elements[1])
          /\ isToken(elements[Len(elements)])
          /\ matchingParentheses(elements[1], elements[Len(elements)])
  THEN [err |-> NoErr, group |-> <<Group(elements)>>]
  ELSE [err |-> Error("ExpectedForm", firstToken(Group(elements)).pos),
        group |-> <<>>]

\* Group.isParenthesized
isParenthesized(g) ==
  /\ isToken(g.elements[1])
  /\ g.elements[1].type \in {"LEFT_PAREN", "LEFT_BRACKET"}

\* Group.unwrap
unwrap(g) ==
  IF isParenthesized(g)
  THEN SubSeq(g.elements, 2, Len(g.elements) - 1)
  ELSE g.elements

\* Group.length
length(g) == Len(unwrap(g))

\* Group.isSingleIdentifier
isSingleIdentifier(g) == ~isParenthesized(g) /\ length(g) = 1

\* Group.location: new Location(this.firstPos(), this.lastPos())
location(g) == <<firstToken(g).pos, lastToken(g).pos>>

(***************************************************************************)
(* The grouper (SchemeParser.grouping).  `cur` is the field `current`.     *)
(* A result is the error thrown or the group returned (<<>> for            *)
(* undefined) and the cursor left behind.                                  *)
(***************************************************************************)
\* SchemeParser.advance: the cursor after the call; the token returned is
\* previous(), the token at that (1-based) index
advance(toks, cur) == IF ~(cur >= Len(toks)) THEN cur + 1 ELSE cur

\* affect with the affector attached to the first token of the target instead
\* of to the target
affect_FirstToken(affector, target) ==
  GroupBuild(<<affector, firstToken(target)>>)

\* SchemeParser.affect
affect(affector, target) == GroupBuild(<<affector, target>>)

\* the throw of grouping without `case TokenType.EOF`: the EOF token falls to
\* the default case
GThrow_DefaultCase(kind, pos, cur) ==
  [err |-> Error("UnexpectedForm", pos), group |-> <<>>, cur |-> cur]

\* SchemeParser.grouping: `throw new ParserError.<kind>(this.source, pos)`
GThrow(kind, pos, cur) == [err |-> Error(kind, pos), group |-> <<>>, cur |-> cur]

\* a value bound once and handed on
Once(F(_), v) == CHOOSE y \in {F(r) : r \in {v}} : TRUE

RECURSIVE grouping(_, _, _)
RECURSIVE groupingLoop(_, _, _, _)
RECURSIVE nextGrouping(_, _)

\* `do { nextGrouping = this.grouping(); } while (!nextGrouping);`
nextGrouping(toks, cur) ==
  Once(LAMBDA r : IF r.err # NoErr \/ r.group # <<>> THEN r
                  ELSE nextGrouping(toks, r.cur),
       grouping(toks, cur, <<>>))

\* the loop of grouping without the `if (!inList)` throw: a close delimiter
\* is pushed whether or not a list is open
groupingLoop_ClosePushed(toks, cur, elements, inList) ==
  LET cur1 == advance(toks, cur)
      c == toks[cur1]
      \* `while (inList)`, then the empty check and Group.build
      Exit(cur2, elements2) ==
        IF Len(elements2) = 0
        THEN [err |-> NoErr, group |-> <<>>, cur |-> cur2]
        ELSE LET b == GroupBuild(elements2)
             IN [err |-> b.err, group |-> b.group, cur |-> cur2]
      Continue(cur2, elements2, inList2) ==
        CHOOSE g \in
          {IF inList2 THEN groupingLoop(toks, c2, e2, inList2) ELSE Exit(c2, e2) :
             c2 \in {cur2}, e2 \in {elements2}} : TRUE
  IN CASE c.type \in {"LEFT_PAREN", "LEFT_BRACKET"} ->
            Once(LAMBDA r : IF r.err # NoErr THEN r
                            ELSE Continue(r.cur, Append(elements, r.group[1]),
                                          inList),
                 grouping(toks, cur1, <<c>>))
       [] c.type \in {"RIGHT_PAREN", "RIGHT_BRACKET"} ->
            Continue(cur1, Append(elements, c), FALSE)
       [] c.type \in {"APOSTROPHE", "BACKTICK", "COMMA", "COMMA_AT",
                      "HASH_VECTOR"} ->
            Once(LAMBDA r :
                   LET a == affect(c, r.group[1])
                   IN IF r.err # NoErr THEN r
                      ELSE IF a.err # NoErr
                      THEN [err |-> a.err, group |-> <<>>, cur |-> r.cur]
                      ELSE Continue(r.cur, Append(elements, a.group[1]), inList),
                 nextGrouping(toks, cur1))
       [] c.type \in {"QUOTE", "QUASIQUOTE", "UNQUOTE", "UNQUOTE_SPLICING",
                      "IDENTIFIER", "NUMBER", "BOOLEAN", "STRING", "DOT",
                      "DEFINE", "IF", "ELSE", "COND", "LAMBDA", "LET",
                      "SET", "BEGIN", "DELAY", "IMPORT", "EXPORT",
                      "JS_IMPORT", "JS_EXPORT"} ->
            Continue(cur1, Append(elements, c), inList)
       [] c.type = "HASH_SEMICOLON" ->
            Once(LAMBDA r : IF r.err # NoErr THEN r
                            ELSE Continue(r.cur, elements, inList),
                 nextGrouping(toks, cur1))
       [] c.type = "EOF" -> GThrow("UnexpectedEOF", c.pos, cur1)
       [] OTHER -> GThrow("UnexpectedForm", c.pos, cur1)

\* the loop of grouping with the datum after a datum comment marker
\* appended instead of dropped
groupingLoop_CommentKept(toks, cur, elements, inList) ==
  LET cur1 == advance(toks, cur)
      c == toks[cur1]
      \* `while (inList)`, then the empty check and Group.build
      Exit(cur2, elements2) ==
        IF Len(elements2) = 0
        THEN [err |-> NoErr, group |-> <<>>, cur |-> cur2]
        ELSE LET b == GroupBuild(elements2)
             IN [err |-> b.err, group |-> b.group, cur |-> cur2]
      Continue(cur2, elements2, inList2) ==
        CHOOSE g \in
          {IF inList2 THEN groupingLoop(toks, c2, e2, inList2) ELSE Exit(c2, e2) :
             c2 \in {cur2}, e2 \in {elements2}} : TRUE
  IN CASE c.type \in {"LEFT_PAREN", "LEFT_BRACKET"} ->
            Once(LAMBDA r : IF r.err # NoErr THEN r
                            ELSE Continue(r.cur, Append(elements, r.group[1]),
                                          inList),
                 grouping(toks, cur1, <<c>>))
       [] c.type \in {"RIGHT_PAREN", "RIGHT_BRACKET"} ->
            IF ~inList THEN GThrow("UnexpectedForm", c.pos, cur1)
            ELSE Continue(cur1, Append(elements, c), FALSE)
       [] c.type \in {"APOSTROPHE", "BACKTICK", "COMMA", "COMMA_AT",
                      "HASH_VECTOR"} ->
            Once(LAMBDA r :
                   LET a == affect(c, r.group[1])
                   IN IF r.err # NoErr THEN r
                      ELSE IF a.err # NoErr
                      THEN [err |-> a.err, group |-> <<>>, cur |-> r.cur]
                      ELSE Continue(r.cur, Append(elements, a.group[1]), inList),
                 nextGrouping(toks, cur1))
       [] c.type \in {"QUOTE", "QUASIQUOTE", "UNQUOTE", "UNQUOTE_SPLICING",
                      "IDENTIFIER", "NUMBER", "BOOLEAN", "STRING", "DOT",
                      "DEFINE", "IF", "ELSE", "COND", "LAMBDA", "LET",
                      "SET", "BEGIN", "DELAY", "IMPORT", "EXPORT",
                      "JS_IMPORT", "JS_EXPORT"} ->
            Continue(cur1, Append(elements, c), inList)
       [] c.type = "HASH_SEMICOLON" ->
            LET r == nextGrouping(toks, cur1)
            IN IF r.err # NoErr THEN r
               ELSE Continue(r.cur, Append(elements, r.group[1]), inList)
       [] c.type = "EOF" -> GThrow("UnexpectedEOF", c.pos, cur1)
       [] OTHER -> GThrow("UnexpectedForm", c.pos, cur1)

\* the body of the do-while loop of SchemeParser.grouping, then its exit
groupingLoop(toks, cur, elements, inList) ==
  LET cur1 == advance(toks, cur)
      c == toks[cur1]
      \* `while (inList)`, then the empty check and Group.build
      Exit(cur2, elements2) ==
        IF Len(elements2) = 0
        THEN [err |-> NoErr, group |-> <<>>, cur |-> cur2]
        ELSE LET b == GroupBuild(elements2)
             IN [err |-> b.err, group |-> b.group, cur |-> cur2]
      Continue(cur2, elements2, inList2) ==
        CHOOSE g \in
          {IF inList2 THEN groupingLoop(toks, c2, e2, inList2) ELSE Exit(c2, e2) :
             c2 \in {cur2}, e2 \in {elements2}} : TRUE
  IN CASE c.type \in {"LEFT_PAREN", "LEFT_BRACKET"} ->
            Once(LAMBDA r : IF r.err # NoErr THEN r
                            ELSE Continue(r.cur, Append(elements, r.group[1]),
                                          inList),
                 grouping(toks, cur1, <<c>>))
       [] c.type \in {"RIGHT_PAREN", "RIGHT_BRACKET"} ->
            IF ~inList THEN GThrow("UnexpectedForm", c.pos, cur1)
            ELSE Continue(cur1, Append(elements, c), FALSE)
       [] c.type \in {"APOSTROPHE", "BACKTICK", "COMMA", "COMMA_AT",
                      "HASH_VECTOR"} ->
            Once(LAMBDA r :
                   LET a == affect(c, r.group[1])
                   IN IF r.err # NoErr THEN r
                      ELSE IF a.err # NoErr
                      THEN [err |-> a.err, group |-> <<>>, cur |-> r.cur]
                      ELSE Continue(r.cur, Append(elements, a.group[1]), inList),
                 nextGrouping(toks, cur1))
       [] c.type \in {"QUOTE", "QUASIQUOTE", "UNQUOTE", "UNQUOTE_SPLICING",
                      "IDENTIFIER", "NUMBER", "BOOLEAN", "STRING", "DOT",
                      "DEFINE", "IF", "ELSE", "COND", "LAMBDA", "LET",
                      "SET", "BEGIN", "DELAY", "IMPORT", "EXPORT",
                      "JS_IMPORT", "JS_EXPORT"} ->
            Continue(cur1, Append(elements, c), inList)
       [] c.type = "HASH_SEMICOLON" ->
            Once(LAMBDA r : IF r.err # NoErr THEN r
                            ELSE Continue(r.cur, elements, inList),
                 nextGrouping(toks, cur1))
       [] c.type = "EOF" -> GThrow("UnexpectedEOF", c.pos, cur1)
       [] OTHER -> GThrow("UnexpectedForm", c.pos, cur1)

\* SchemeParser.grouping(openparen?): openparen is <<>> or <<token>>
grouping(toks, cur, openparen) ==
  groupingLoop(toks, cur, openparen, openparen # <<>>)

(***************************************************************************)
(* AST nodes (types/nodes/scheme-node-types.ts) and locations.             *)
(***************************************************************************)
\* SchemeParser.toLocation
toLocation(token) == <<token.pos, token.endPos>>

\* Location.merge
merge(loc, other) == <<loc[1], other[2]>>

Identifier(loc, name) == [type |-> "Identifier", loc |-> loc, name |-> name]
Symbol(loc, value) == [type |-> "Symbol", loc |-> loc, value |-> value]
NumericLiteral(loc, value) ==
  [type |-> "NumericLiteral", loc |-> loc, value |-> value]
BooleanLiteral(loc, value) ==
  [type |-> "BooleanLiteral", loc |-> loc, value |-> value]
StringLiteral(loc, value) ==
  [type |-> "StringLiteral", loc |-> loc, value |-> value]
Nil(loc) == [type |-> "Nil", loc |-> loc]
\* terminator is <<>> (undefined) or <<node>>
List(loc, elements, terminator) ==
  [type |-> "List", loc |-> loc, elements |-> elements,
   terminator |-> terminator]
Vector(loc, elements) ==
  [type |-> "Vector", loc |-> loc, elements |-> elements]
Sequence(loc, expressions) ==
  [type |-> "Sequence", loc |-> loc, expressions |-> expressions]
\* rest is <<>> (undefined) or <<node>>
Lambda(loc, body, params, rest) ==
  [type |-> "Lambda", loc |-> loc, body |-> body, params |-> params,
   rest |-> rest]
FunctionDefinition(loc, name, body, params, rest) ==
  [type |-> "FunctionDefinition", loc |-> loc, name |-> name, body |-> body,
   params |-> params, rest |-> rest]
Definition(loc, name, value) ==
  [type |-> "Definition", loc |-> loc, name |-> name, value |-> value]
Conditional(loc, test, consequent, alternate) ==
  [type |-> "Conditional", loc |-> loc, test |-> test,
   consequent |-> consequent, alternate |-> alternate]
Application(loc, operator, operands) ==
  [type |-> "Application", loc |-> loc, operator |-> operator,
   operands |-> operands]
Let(loc, identifiers, values, body) ==
  [type |-> "Let", loc |-> loc, identifiers |-> identifiers,
   values |-> values, body |-> body]
\* catchall is <<>> (undefined) or <<node>>
Cond(loc, predicates, consequents, catchall) ==
  [type |-> "Cond", loc |-> loc, predicates |-> predicates,
   consequents |-> consequents, catchall |-> catchall]
Reassignment(loc, name, value) ==
  [type |-> "Reassignment", loc |-> loc, name |-> name, value |-> value]
Begin(loc, expressions) ==
  [type |-> "Begin", loc |-> loc, expressions |-> expressions]
Delay(loc, expression) ==
  [type |-> "Delay", loc |-> loc, expression |-> expression]
Import(loc, source, identifiers, isJs) ==
  [type |-> "Import", loc |-> loc, source |-> source,
   identifiers |-> identifiers, isJs |-> isJs]
Export(loc, definition, isJs) ==
  [type |-> "Export", loc |-> loc, definition |-> definition, isJs |-> isJs]

(***************************************************************************)
(* The semantic parser.  `mode` is the field quoteMode when the method is  *)
(* entered and `chapter` the field chapter.  A result holds the node       *)
(* returned or the error thrown, the quoteMode left behind, and `log`: one *)
(* record per parseExpression call made, in call order.                    *)
(***************************************************************************)
\* We can group syntactical elements by their chapter
BASIC_CHAPTER == 1
QUOTING_CHAPTER == 2
VECTOR_CHAPTER == 3
MUTABLE_CHAPTER == 3

NoNode == [type |-> "none"]
\* the value of a destructured array element that does not exist
Undefined == [k |-> "undefined"]
\* the position read from a datum that has no `pos` field
UndefinedPos == 0

Return(node, mode, log) ==
  [ok |-> TRUE, node |-> node, mode |-> mode, err |-> NoErr, log |-> log]
Throw(err, mode, log) ==
  [ok |-> FALSE, node |-> NoNode, mode |-> mode, err |-> err, log |-> log]

\* validateChapter with the comparison off by one: a form of the ceiling's own
\* chapter is rejected
validateChapter_Strict(ceiling, c, chapter) ==
  IF ceiling <= chapter THEN Error("DisallowedToken", c.pos) ELSE NoErr

\* validateChapter with the comparison turned round: a form of a chapter
\* below the ceiling is rejected
validateChapter_Reversed(ceiling, c, chapter) ==
  IF ceiling > chapter THEN Error("DisallowedToken", c.pos) ELSE NoErr

\* SchemeParser.validateChapter: the error thrown, if any
validateChapter(ceiling, c, chapter) ==
  IF ceiling < chapter THEN Error("DisallowedToken", c.pos) ELSE NoErr

\* parseToken with the quoting test ahead of the switch: in a quoting context
\* every token, a literal too, becomes a Symbol
parseToken_QuotedLiteral(token, mode) ==
  IF mode # "NONE"
  THEN Return(Symbol(toLocation(token), token.lexeme), mode, <<>>)
  ELSE CASE token.type = "IDENTIFIER" ->
              Return(Identifier(toLocation(token), token.lexeme), mode, <<>>)
         [] token.type = "NUMBER" ->
              Return(NumericLiteral(toLocation(token), token.literal), mode,
                     <<>>)
         [] token.type = "BOOLEAN" ->
              Return(BooleanLiteral(toLocation(token), token.literal), mode,
                     <<>>)
         [] token.type = "STRING" ->
              Return(StringLiteral(toLocation(token), token.literal), mode,
                     <<>>)
         [] OTHER -> Throw(Error("UnexpectedForm", token.pos), mode, <<>>)

\* SchemeParser.parseToken
parseToken(token, mode) ==
  CASE token.type = "IDENTIFIER" ->
         IF mode = "NONE"
         THEN Return(Identifier(toLocation(token), token.lexeme), mode, <<>>)
         ELSE Return(Symbol(toLocation(token), token.lexeme), mode, <<>>)
    [] token.type = "NUMBER" ->
         Return(NumericLiteral(toLocation(token), token.literal), mode, <<>>)
    [] token.type = "BOOLEAN" ->
         Return(BooleanLiteral(toLocation(token), token.literal), mode, <<>>)
    [] token.type = "STRING" ->
         Return(StringLiteral(toLocation(token), token.literal), mode, <<>>)
    [] OTHER ->
         IF mode # "NONE"
         THEN Return(Symbol(toLocation(token), token.lexeme), mode, <<>>)
         ELSE Throw(Error("UnexpectedForm", token.pos), mode, <<>>)

RECURSIVE parseExpression(_, _, _)

\* Group.unwrap hands out the array this.elements itself, not a copy of it,
\* when the group is not parenthesized
unwrapAliases(g) == ~isParenthesized(g)

\* one record of the call history: `g.unwrap().splice(1)`, which removes from
\* the array unwrap returned every element after the first
Spliced(g) ==
  [fn |-> "splice", group |-> g, shared |-> unwrapAliases(g)]

\* a group spliced through an array it shares
isSpliced(g, log) ==
  \E i \in 1..Len(log) :
    log[i].fn = "splice" /\ log[i].shared /\ log[i].group = g

RECURSIVE afterSplices(_, _)
\* the datum tree as the splices of the call history leave it
afterSplices(datum, log) ==
  IF isToken(datum) THEN datum
  ELSE LET kept == IF isSpliced(datum, log)
                   THEN SubSeq(datum.elements, 1, 1)
                   ELSE datum.elements
       IN Group([k \in 1..Len(kept) |-> afterSplices(kept[k], log)])

RECURSIVE parseEach(_, _, _)
\* `list.map(this.parseExpression.bind(this))`, and the loops that push
\* this.parseExpression(element) for each element in order: the nodes built,
\* up to the first call that throws
parseEach(list, mode, chapter) ==
  IF Len(list) = 0
  THEN [ok |-> TRUE, nodes |-> <<>>, mode |-> mode, err |-> NoErr,
        log |-> <<>>]
  ELSE LET First(r) ==
             IF ~r.ok
             THEN [ok |-> FALSE, nodes |-> <<>>, mode |-> r.mode,
                   err |-> r.err, log |-> r.log]
             ELSE LET Others(rs) ==
                        [rs EXCEPT !.nodes = <<r.node>> \o @,
                                   !.log = r.log \o @]
                  IN Once(Others, parseEach(Tail(list), r.mode, chapter))
       IN Once(First, parseExpression(Head(list), mode, chapter))

\* the verifier callbacks handed to destructureList: the default no-op, and
\* the formal-identifier check of parseLambda and parseDefinition
verifier(which, formal) ==
  IF which = "none" THEN NoErr
  ELSE IF ~isToken(formal) THEN Error("ExpectedForm", UndefinedPos)
  ELSE IF formal.type # "IDENTIFIER" THEN Error("ExpectedForm", formal.pos)
  ELSE NoErr

\* `listElements.forEach(verifier)` left out: nothing is thrown
forEachVerifier_Skipped(which, list) == NoErr

RECURSIVE forEachVerifier(_, _)
\* `listElements.forEach(verifier)`: the first error thrown, if any
forEachVerifier(which, list) ==
  IF Len(list) = 0 THEN NoErr
  ELSE IF verifier(which, Head(list)) # NoErr THEN verifier(which, Head(list))
  ELSE forEachVerifier(which, Tail(list))

DThrow(err, mode, log) ==
  [ok |-> FALSE, prefix |-> <<>>, tail |-> <<>>, mode |-> mode, err |-> err,
   log |-> log]
DReturn(prefix, tail, mode, log) ==
  [ok |-> TRUE, prefix |-> prefix, tail |-> tail, mode |-> mode,
   err |-> NoErr, log |-> log]

\* one record of the call history: a call of destructureList, its arguments
\* and how it ended
DCall(list, which, mode, d) ==
  [fn |-> "destructureList", list |-> list, which |-> which, modeIn |-> mode,
   ok |-> d.ok, prefix |-> d.prefix, tail |-> d.tail, modeOut |-> d.mode,
   err |-> d.err]

\* SchemeParser.destructureList: [prefix, tail], tail <<>> for undefined
destructureList(list, which, mode, chapter) ==
  LET Logged(d) == [d EXCEPT !.log = <<DCall(list, which, mode, d)>> \o @]
      \* `return [[this.parseExpression(list[0])], undefined]`
      Single(r) ==
        IF ~r.ok THEN DThrow(r.err, r.mode, r.log)
        ELSE DReturn(<<r.node>>, <<>>, r.mode, r.log)
      \* `return [listElements.map(...), this.parseExpression(cdrElement)]`
      DottedCdr(es, cdr) ==
        IF ~cdr.ok THEN DThrow(cdr.err, cdr.mode, es.log \o cdr.log)
        ELSE DReturn(es.nodes, <<cdr.node>>, cdr.mode, es.log \o cdr.log)
      Dotted(es, cdrElement) ==
        IF ~es.ok THEN DThrow(es.err, es.mode, es.log)
        ELSE DottedCdr(es, parseExpression(cdrElement, es.mode, chapter))
      \* `return [listElements.map(...), undefined]`
      Proper(es) ==
        IF ~es.ok THEN DThrow(es.err, es.mode, es.log)
        ELSE DReturn(es.nodes, <<>>, es.mode, es.log)
  IN Once(Logged, 
       IF Len(list) = 0 THEN DReturn(<<>>, <<>>, mode, <<>>)
       ELSE IF Len(list) = 1
       THEN IF verifier(which, list[1]) # NoErr
            THEN DThrow(verifier(which, list[1]), mode, <<>>)
            ELSE Once(Single, parseExpression(list[1], mode, chapter))
       ELSE IF /\ isToken(list[Len(list) - 1])
               /\ list[Len(list) - 1].type = "DOT"
       THEN IF verifier(which, list[Len(list)]) # NoErr
            THEN DThrow(verifier(which, list[Len(list)]), mode, <<>>)
            ELSE IF forEachVerifier(which, SubSeq(list, 1, Len(list) - 2))
                      # NoErr
            THEN DThrow(forEachVerifier(which, SubSeq(list, 1, Len(list) - 2)),
                        mode, <<>>)
            ELSE Dotted(parseEach(SubSeq(list, 1, Len(list) - 2), mode,
                                  chapter),
                        list[Len(list)])
       ELSE IF forEachVerifier(which, list) # NoErr
       THEN DThrow(forEachVerifier(which, list), mode, <<>>)
       ELSE Once(Proper, parseEach(list, mode, chapter)))

\* SchemeParser.parseQuotedGroup
parseQuotedGroup(group, mode, chapter) ==
  LET Single(r) ==
        IF ~r.ok THEN r
        ELSE Return(List(location(group), <<r.node>>, <<>>), r.mode, r.log)
      Destructured(d) ==
        IF ~d.ok THEN Throw(d.err, d.mode, d.log)
        ELSE Return(List(location(group), d.prefix, d.tail), d.mode, d.log)
  IN IF length(group) = 0 THEN Return(Nil(location(group)), mode, <<>>)
     ELSE IF length(group) = 1
     THEN Once(Single, parseExpression(unwrap(group)[1], mode, chapter))
     ELSE Once(Destructured, destructureList(unwrap(group), "none", mode, chapter))

\* SchemeParser.parseVector
parseVector(group, mode, chapter) ==
  LET elements == unwrap(group)[2]
      Converted(convertedElements) ==
        IF ~convertedElements.ok
        THEN Throw(convertedElements.err, convertedElements.mode,
                   convertedElements.log)
        ELSE Return(Vector(location(group), convertedElements.nodes),
                    convertedElements.mode, convertedElements.log)
  IN Once(Converted, parseEach(unwrap(elements), mode, chapter))

\* parseAffectorGroup: `wrap the entire expression in a list`, the branch
\* taken by quote, quasiquote, unquote and unquote-splicing when the affector
\* is itself data
wrapInList(affector, name, target, mode, chapter) ==
  LET newSymbol == Symbol(toLocation(affector), name)
      Wrapped(innerGroup) ==
        IF ~innerGroup.ok THEN innerGroup
        ELSE Return(List(merge(newSymbol.loc, innerGroup.node.loc),
                         <<newSymbol, innerGroup.node>>, <<>>),
                    innerGroup.mode, innerGroup.log)
  IN Once(Wrapped, parseExpression(target, mode, chapter))

\* the case APOSTROPHE / QUOTE without the test for an ambient quotation: a
\* quote inside a quotation enters QUOTE again and leaves in mode NONE
affectorQuote_Reentered(affector, target, mode, chapter) ==
  LET Restored(quotedExpression) ==
        IF ~quotedExpression.ok THEN quotedExpression
        ELSE Return(quotedExpression.node, "NONE", quotedExpression.log)
  IN IF validateChapter(chapter, affector, QUOTING_CHAPTER) # NoErr
     THEN Throw(validateChapter(chapter, affector, QUOTING_CHAPTER), mode,
                <<>>)
     ELSE Once(Restored, parseExpression(target, "QUOTE", chapter))

\* parseAffectorGroup, case APOSTROPHE / QUOTE
affectorQuote(affector, target, mode, chapter) ==
  LET Restored(quotedExpression) ==
        IF ~quotedExpression.ok THEN quotedExpression
        ELSE Return(quotedExpression.node, "NONE", quotedExpression.log)
  IN IF validateChapter(chapter, affector, QUOTING_CHAPTER) # NoErr
     THEN Throw(validateChapter(chapter, affector, QUOTING_CHAPTER), mode,
                <<>>)
     ELSE IF mode # "NONE"
     THEN wrapInList(affector, "quote", target, mode, chapter)
     ELSE Once(Restored, parseExpression(target, "QUOTE", chapter))

\* the case BACKTICK / QUASIQUOTE without `this.quoteMode = QuoteMode.NONE`
\* after the target is parsed
affectorQuasiquote_Unrestored(affector, target, mode, chapter) ==
  IF validateChapter(chapter, affector, QUOTING_CHAPTER) # NoErr
  THEN Throw(validateChapter(chapter, affector, QUOTING_CHAPTER), mode, <<>>)
  ELSE IF mode # "NONE"
  THEN wrapInList(affector, "quasiquote", target, mode, chapter)
  ELSE parseExpression(target, "QUASIQUOTE", chapter)

\* parseAffectorGroup, case BACKTICK / QUASIQUOTE
affectorQuasiquote(affector, target, mode, chapter) ==
  LET Restored(quasiquotedExpression) ==
        IF ~quasiquotedExpression.ok THEN quasiquotedExpression
        ELSE Return(quasiquotedExpression.node, "NONE",
                    quasiquotedExpression.log)
  IN IF validateChapter(chapter, affector, QUOTING_CHAPTER) # NoErr
     THEN Throw(validateChapter(chapter, affector, QUOTING_CHAPTER), mode,
                <<>>)
     ELSE IF mode # "NONE"
     THEN wrapInList(affector, "quasiquote", target, mode, chapter)
     ELSE Once(Restored, parseExpression(target, "QUASIQUOTE", chapter))

\* the case COMMA / UNQUOTE without `this.quoteMode = QuoteMode.NONE` before
\* the target is parsed: the target stays data
affectorUnquote_StillQuoted(affector, target, mode, chapter) ==
  IF validateChapter(chapter, affector, QUOTING_CHAPTER) # NoErr
  THEN Throw(validateChapter(chapter, affector, QUOTING_CHAPTER), mode, <<>>)
  ELSE IF mode = "NONE"
  THEN Throw(Error("UnsupportedToken", affector.pos), mode, <<>>)
  ELSE IF mode = "QUOTE"
  THEN wrapInList(affector, "unquote", target, mode, chapter)
  ELSE parseExpression(target, mode, chapter)

\* parseAffectorGroup, case COMMA / UNQUOTE
affectorUnquote(affector, target, mode, chapter) ==
  LET preUnquoteMode == mode
      Restored(unquotedExpression) ==
        IF ~unquotedExpression.ok THEN unquotedExpression
        ELSE Return(unquotedExpression.node, preUnquoteMode,
                    unquotedExpression.log)
  IN IF validateChapter(chapter, affector, QUOTING_CHAPTER) # NoErr
     THEN Throw(validateChapter(chapter, affector, QUOTING_CHAPTER), mode,
                <<>>)
     ELSE IF preUnquoteMode = "NONE"
     THEN Throw(Error("UnsupportedToken", affector.pos), mode, <<>>)
     ELSE IF preUnquoteMode = "QUOTE"
     THEN wrapInList(affector, "unquote", target, mode, chapter)
     ELSE Once(Restored, parseExpression(target, "NONE", chapter))

\* the case COMMA_AT / UNQUOTE_SPLICING without the final throw: under a
\* quasiquote the statements after it run and build a SpliceMarker
affectorUnquoteSplicing_Spliced(affector, target, mode, chapter) ==
  LET Marked(unquoteSplicedExpression) ==
        IF ~unquoteSplicedExpression.ok THEN unquoteSplicedExpression
        ELSE Return([type |-> "SpliceMarker",
                     loc |-> merge(toLocation(affector),
                                   unquoteSplicedExpression.node.loc),
                     value |-> unquoteSplicedExpression.node],
                    mode, unquoteSplicedExpression.log)
  IN IF validateChapter(chapter, affector, QUOTING_CHAPTER) # NoErr
     THEN Throw(validateChapter(chapter, affector, QUOTING_CHAPTER), mode,
                <<>>)
     ELSE IF mode = "NONE"
     THEN Throw(Error("UnexpectedForm", affector.pos), mode, <<>>)
     ELSE IF mode = "QUOTE"
     THEN wrapInList(affector, "unquote-splicing", target, mode, chapter)
     ELSE Once(Marked, parseExpression(target, "NONE", chapter))

\* parseAffectorGroup, case COMMA_AT / UNQUOTE_SPLICING; the statements after
\* the final throw are never executed
affectorUnquoteSplicing(affector, target, mode, chapter) ==
  LET preUnquoteSplicingMode == mode
  IN IF validateChapter(chapter, affector, QUOTING_CHAPTER) # NoErr
     THEN Throw(validateChapter(chapter, affector, QUOTING_CHAPTER), mode,
                <<>>)
     ELSE IF preUnquoteSplicingMode = "NONE"
     THEN Throw(Error("UnexpectedForm", affector.pos), mode, <<>>)
     ELSE IF preUnquoteSplicingMode = "QUOTE"
     THEN wrapInList(affector, "unquote-splicing", target, mode, chapter)
     ELSE Throw(Error("UnsupportedToken", affector.pos), mode, <<>>)

\* the case HASH_VECTOR without `this.quoteMode = QuoteMode.QUOTE`: the
\* elements are parsed in the ambient mode
affectorVector_Ambient(affector, group, mode, chapter) ==
  IF validateChapter(chapter, affector, VECTOR_CHAPTER) # NoErr
  THEN Throw(validateChapter(chapter, affector, VECTOR_CHAPTER), mode, <<>>)
  ELSE parseVector(group, mode, chapter)

\* parseAffectorGroup, case HASH_VECTOR
affectorVector(affector, group, mode, chapter) ==
  LET preVectorQuoteMode == mode
      Restored(vector) ==
        IF ~vector.ok THEN vector
        ELSE Return(vector.node, preVectorQuoteMode, vector.log)
  IN IF validateChapter(chapter, affector, VECTOR_CHAPTER) # NoErr
     THEN Throw(validateChapter(chapter, affector, VECTOR_CHAPTER), mode,
                <<>>)
     ELSE Once(Restored, parseVector(group, "QUOTE", chapter))

\* SchemeParser.parseAffectorGroup
parseAffectorGroup(group, mode, chapter) ==
  LET affector == unwrap(group)[1]
      target == IF Len(unwrap(group)) >= 2 THEN unwrap(group)[2]
                ELSE Undefined
  IN CASE affector.type \in {"APOSTROPHE", "QUOTE"} ->
            affectorQuote(affector, target, mode, chapter)
       [] affector.type \in {"BACKTICK", "QUASIQUOTE"} ->
            affectorQuasiquote(affector, target, mode, chapter)
       [] affector.type \in {"COMMA", "UNQUOTE"} ->
            affectorUnquote(affector, target, mode, chapter)
       [] affector.type \in {"COMMA_AT", "UNQUOTE_SPLICING"} ->
            affectorUnquoteSplicing(affector, target, mode, chapter)
       [] affector.type = "HASH_VECTOR" ->
            affectorVector(affector, group, mode, chapter)
       [] OTHER -> Throw(Error("UnexpectedForm", affector.pos), mode, <<>>)

\* the body of a lambda, function definition or let: the only expression, or
\* a Sequence spanning the first to the last
bodyOf(convertedBody) ==
  IF Len(convertedBody) = 1 THEN convertedBody[1]
  ELSE Sequence(merge(convertedBody[1].loc,
                      convertedBody[Len(convertedBody)].loc),
                convertedBody)

\* SchemeParser.parseLambda
parseLambda(group, mode, chapter) ==
  IF length(group) < 3
  THEN Throw(Error("ExpectedForm", location(group)[1]), mode, <<>>)
  ELSE
  LET elements == unwrap(group)
      formals == elements[2]
      body == SubSeq(elements, 3, Len(elements))
      WithBody(d, convertedBody) ==
        IF ~convertedBody.ok
        THEN Throw(convertedBody.err, convertedBody.mode,
                   d.log \o convertedBody.log)
        ELSE IF Len(convertedBody.nodes) < 1
        THEN Throw(Error("ExpectedForm", location(group)[1]),
                   convertedBody.mode, d.log \o convertedBody.log)
        ELSE Return(Lambda(location(group), bodyOf(convertedBody.nodes),
                           d.prefix, d.tail),
                    convertedBody.mode, d.log \o convertedBody.log)
      WithFormals(d) ==
        IF ~d.ok THEN Throw(d.err, d.mode, d.log)
        ELSE WithBody(d, parseEach(body, d.mode, chapter))
  IN Once(WithFormals, 
       IF isToken(formals)
       THEN IF formals.type # "IDENTIFIER"
            THEN DThrow(Error("ExpectedForm", formals.pos), mode, <<>>)
            ELSE DReturn(<<>>,
                         <<Identifier(toLocation(formals), formals.lexeme)>>,
                         mode, <<>>)
       ELSE destructureList(unwrap(formals), "identifier", mode, chapter))

\* SchemeParser.parseDefinition
parseDefinition(group, mode, chapter) ==
  IF length(group) < 3
  THEN Throw(Error("ExpectedForm", location(group)[1]), mode, <<>>)
  ELSE
  LET elements == unwrap(group)
      identifier == elements[2]
      expr == SubSeq(elements, 3, Len(elements))
      \* the function definition `(define (name . formals) body ...)`
      WithBody(functionName, d, convertedBody) ==
        IF ~convertedBody.ok
        THEN Throw(convertedBody.err, convertedBody.mode,
                   d.log \o convertedBody.log)
        ELSE Return(FunctionDefinition(
                      location(group),
                      Identifier(toLocation(functionName),
                                 functionName.lexeme),
                      bodyOf(convertedBody.nodes), d.prefix, d.tail),
                    convertedBody.mode, d.log \o convertedBody.log)
      WithFormals(functionName, d) ==
        IF ~d.ok THEN Throw(d.err, d.mode, d.log)
        ELSE IF Len(expr) < 1
        THEN Throw(Error("ExpectedForm", location(group)[1]), d.mode, d.log)
        ELSE WithBody(functionName, d, parseEach(expr, d.mode, chapter))
      Function(functionName, formals) ==
        IF functionName = Undefined
        THEN Throw(Error("TypeError", UndefinedPos), mode, <<>>)
        ELSE IF ~isToken(functionName)
        THEN Throw(Error("ExpectedForm", location(functionName)[1]), mode,
                   <<>>)
        ELSE IF functionName.type # "IDENTIFIER"
        THEN Throw(Error("ExpectedForm", functionName.pos), mode, <<>>)
        ELSE WithFormals(functionName,
                         destructureList(formals, "identifier", mode,
                                         chapter))
      \* `const formals = identifierElements.splice(1)`
      IdentifierSpliced(r) ==
        [r EXCEPT !.log = <<Spliced(identifier)>> \o @]
      \* the variable definition `(define name value)`
      Variable(convertedExpr) ==
        IF ~convertedExpr.ok THEN convertedExpr
        ELSE Return(Definition(location(group),
                               Identifier(toLocation(identifier),
                                          identifier.lexeme),
                               convertedExpr.node),
                    convertedExpr.mode, convertedExpr.log)
  IN IF isGroup(identifier)
     THEN IdentifierSpliced(
            Function(IF Len(unwrap(identifier)) >= 1
                     THEN unwrap(identifier)[1] ELSE Undefined,
                     SubSeq(unwrap(identifier), 2, Len(unwrap(identifier)))))
     ELSE IF identifier.type # "IDENTIFIER"
     THEN Throw(Error("ExpectedForm", identifier.pos), mode, <<>>)
     ELSE IF Len(expr) < 1
     THEN Throw(Error("ExpectedForm", location(group)[1]), mode, <<>>)
     ELSE IF Len(expr) > 1
     THEN Throw(Error("ExpectedForm", location(group)[1]), mode, <<>>)
     ELSE Once(Variable, parseExpression(expr[1], mode, chapter))

\* SchemeParser.parseConditional
parseConditional(group, mode, chapter) ==
  IF length(group) < 3 \/ length(group) > 4
  THEN Throw(Error("ExpectedForm", location(group)[1]), mode, <<>>)
  ELSE
  LET elements == unwrap(group)
      test == elements[2]
      consequent == elements[3]
      WithAlternate(log, convertedTest, convertedConsequent,
                    convertedAlternate) ==
        IF ~convertedAlternate.ok
        THEN Throw(convertedAlternate.err, convertedAlternate.mode,
                   log \o convertedAlternate.log)
        ELSE Return(Conditional(location(group), convertedTest.node,
                                convertedConsequent.node,
                                convertedAlternate.node),
                    convertedAlternate.mode, log \o convertedAlternate.log)
      WithConsequent(convertedTest, convertedConsequent) ==
        IF ~convertedConsequent.ok
        THEN Throw(convertedConsequent.err, convertedConsequent.mode,
                   convertedTest.log \o convertedConsequent.log)
        ELSE WithAlternate(
               convertedTest.log \o convertedConsequent.log,
               convertedTest, convertedConsequent,
               IF length(group) > 3
               THEN parseExpression(elements[4], convertedConsequent.mode,
                                    chapter)
               ELSE Return(Identifier(location(group), "undefined"),
                           convertedConsequent.mode, <<>>))
      WithTest(convertedTest) ==
        IF ~convertedTest.ok THEN convertedTest
        ELSE WithConsequent(convertedTest,
                            parseExpression(consequent, convertedTest.mode,
                                            chapter))
  IN Once(WithTest, parseExpression(test, mode, chapter))

\* SchemeParser.parseApplication
parseApplication(group, mode, chapter) ==
  IF length(group) < 1
  THEN Throw(Error("ExpectedForm", location(group)[1]), mode, <<>>)
  ELSE
  LET elements == unwrap(group)
      operator == elements[1]
      operands == SubSeq(elements, 2, Len(elements))
      WithOperands(convertedOperator, convertedOperands) ==
        IF ~convertedOperands.ok
        THEN Throw(convertedOperands.err, convertedOperands.mode,
                   convertedOperator.log \o convertedOperands.log)
        ELSE Return(Application(location(group), convertedOperator.node,
                                convertedOperands.nodes),
                    convertedOperands.mode,
                    convertedOperator.log \o convertedOperands.log)
      WithOperator(convertedOperator) ==
        IF ~convertedOperator.ok THEN convertedOperator
        ELSE WithOperands(convertedOperator,
                          parseEach(operands, convertedOperator.mode,
                                    chapter))
      \* `const operands = elements.splice(1)`
      ElementsSpliced(r) == [r EXCEPT !.log = <<Spliced(group)>> \o @]
  IN Once(ElementsSpliced, Once(WithOperator, parseExpression(operator, mode, chapter)))

RECURSIVE letBindings(_, _, _)
\* the loop of parseLet over bindingElements: convertedIdentifiers and
\* convertedValues, up to the first throw
letBindings(bindingElements, mode, chapter) ==
  IF Len(bindingElements) = 0
  THEN [ok |-> TRUE, identifiers |-> <<>>, values |-> <<>>, mode |-> mode,
        err |-> NoErr, log |-> <<>>]
  ELSE
  LET bindingElement == Head(bindingElements)
      Stop(err, m, log) ==
        [ok |-> FALSE, identifiers |-> <<>>, values |-> <<>>, mode |-> m,
         err |-> err, log |-> log]
      Others(identifier, v, rest) ==
        IF ~rest.ok THEN Stop(rest.err, rest.mode, v.log \o rest.log)
        ELSE [rest EXCEPT
                !.identifiers = <<Identifier(toLocation(identifier),
                                             identifier.lexeme)>> \o @,
                !.values = <<v.node>> \o @,
                !.log = v.log \o @]
      WithValue(identifier, v) ==
        IF ~v.ok THEN Stop(v.err, v.mode, v.log)
        ELSE Others(identifier, v,
                    letBindings(Tail(bindingElements), v.mode, chapter))
      Binding(identifier, value) ==
        IF ~isToken(identifier)
        THEN Stop(Error("ExpectedForm", location(identifier)[1]), mode, <<>>)
        ELSE IF identifier.type # "IDENTIFIER"
        THEN Stop(Error("ExpectedForm", identifier.pos), mode, <<>>)
        ELSE WithValue(identifier, parseExpression(value, mode, chapter))
  IN IF ~isGroup(bindingElement)
     THEN Stop(Error("ExpectedForm", bindingElement.pos), mode, <<>>)
     ELSE IF length(bindingElement) # 2
     THEN Stop(Error("ExpectedForm", location(bindingElement)[1]), mode, <<>>)
     ELSE Binding(unwrap(bindingElement)[1], unwrap(bindingElement)[2])

\* SchemeParser.parseLet
parseLet(group, mode, chapter) ==
  IF length(group) < 3
  THEN Throw(Error("ExpectedForm", location(group)[1]), mode, <<>>)
  ELSE
  LET elements == unwrap(group)
      bindings == elements[2]
      body == SubSeq(elements, 3, Len(elements))
      WithBody(bs, convertedBody) ==
        IF ~convertedBody.ok
        THEN Throw(convertedBody.err, convertedBody.mode,
                   bs.log \o convertedBody.log)
        ELSE IF Len(convertedBody.nodes) < 1
        THEN Throw(Error("ExpectedForm", location(group)[1]),
                   convertedBody.mode, bs.log \o convertedBody.log)
        ELSE Return(Let(location(group), bs.identifiers, bs.values,
                        bodyOf(convertedBody.nodes)),
                    convertedBody.mode, bs.log \o convertedBody.log)
      WithBindings(bs) ==
        IF ~bs.ok THEN Throw(bs.err, bs.mode, bs.log)
        ELSE WithBody(bs, parseEach(body, bs.mode, chapter))
  IN IF ~isGroup(bindings)
     THEN Throw(Error("ExpectedForm", bindings.pos), mode, <<>>)
     ELSE Once(WithBindings, letBindings(unwrap(bindings), mode, chapter))

\* the consequent of a clause taken to be its first expression alone
clauseConsequent_FirstOnly(consequentExpressions) == consequentExpressions[1]

\* parseExtendedCond: the consequent of a clause, `consequentExpressions[0]`
\* alone or a Sequence spanning the first to the last
clauseConsequent(consequentExpressions) ==
  IF Len(consequentExpressions) < 2 THEN consequentExpressions[1]
  ELSE Sequence(merge(consequentExpressions[1].loc,
                      consequentExpressions[Len(consequentExpressions)].loc),
                consequentExpressions)

RECURSIVE condClauses(_, _, _)
\* the loop of parseExtendedCond over the clauses before the last:
\* convertedClauses and convertedConsequents, up to the first throw
condClauses(clauses, mode, chapter) ==
  IF Len(clauses) = 0
  THEN [ok |-> TRUE, clauses |-> <<>>, consequents |-> <<>>, mode |-> mode,
        err |-> NoErr, log |-> <<>>]
  ELSE
  LET clause == Head(clauses)
      Stop(err, m, log) ==
        [ok |-> FALSE, clauses |-> <<>>, consequents |-> <<>>, mode |-> m,
         err |-> err, log |-> log]
      Others(log, convertedTest, convertedConsequent, rest) ==
        IF ~rest.ok THEN Stop(rest.err, rest.mode, log \o rest.log)
        ELSE [rest EXCEPT
                !.clauses = <<convertedTest.node>> \o @,
                !.consequents = <<convertedConsequent>> \o @,
                !.log = log \o @]
      WithConsequent(convertedTest, consequentExpressions) ==
        IF ~consequentExpressions.ok
        THEN Stop(consequentExpressions.err, consequentExpressions.mode,
                  convertedTest.log \o consequentExpressions.log)
        ELSE Others(convertedTest.log \o consequentExpressions.log,
                    convertedTest,
                    IF Len(consequentExpressions.nodes) < 1
                    THEN convertedTest.node
                    ELSE clauseConsequent(consequentExpressions.nodes),
                    condClauses(Tail(clauses), consequentExpressions.mode,
                                chapter))
      WithTest(consequent, convertedTest) ==
        IF ~convertedTest.ok
        THEN Stop(convertedTest.err, convertedTest.mode, convertedTest.log)
        ELSE WithConsequent(convertedTest,
                            parseEach(consequent, convertedTest.mode,
                                      chapter))
      Clause(test, consequent) ==
        IF isToken(test) /\ test.type = "ELSE"
        THEN Stop(Error("ExpectedForm", test.pos), mode, <<>>)
        ELSE WithTest(consequent, parseExpression(test, mode, chapter))
  IN IF ~isGroup(clause)
     THEN Stop(Error("ExpectedForm", clause.pos), mode, <<>>)
     ELSE IF length(clause) < 1
     THEN Stop(Error("ExpectedForm", firstToken(clause).pos), mode, <<>>)
     ELSE Clause(unwrap(clause)[1], Tail(unwrap(clause)))

\* SchemeParser.parseExtendedCond
parseExtendedCond(group, mode, chapter) ==
  IF length(group) < 2
  THEN Throw(Error("ExpectedForm", location(group)[1]), mode, <<>>)
  ELSE
  LET elements == unwrap(group)
      clauses == SubSeq(elements, 2, Len(elements) - 1)
      lastClause == elements[Len(elements)]
      WithLastTest(log, cs, lastConsequent, lastTest) ==
        IF ~lastTest.ok
        THEN Throw(lastTest.err, lastTest.mode, log \o lastTest.log)
        ELSE Return(Cond(location(group), Append(cs.clauses, lastTest.node),
                         Append(cs.consequents, lastConsequent), <<>>),
                    lastTest.mode, log \o lastTest.log)
      WithLastConsequent(cs, test, isElse, consequentExpressions) ==
        IF ~consequentExpressions.ok
        THEN Throw(consequentExpressions.err, consequentExpressions.mode,
                   cs.log \o consequentExpressions.log)
        ELSE IF isElse
        THEN Return(Cond(location(group), cs.clauses, cs.consequents,
                         <<clauseConsequent(consequentExpressions.nodes)>>),
                    consequentExpressions.mode,
                    cs.log \o consequentExpressions.log)
        ELSE WithLastTest(cs.log \o consequentExpressions.log, cs,
                          clauseConsequent(consequentExpressions.nodes),
                          parseExpression(test, consequentExpressions.mode,
                                          chapter))
      LastClause(cs, test, consequent, isElse) ==
        IF isElse /\ Len(consequent) # 1
        THEN Throw(Error("ExpectedForm", location(lastClause)[1]), cs.mode,
                   cs.log)
        ELSE IF Len(consequent) < 1
        THEN Throw(Error("ExpectedForm", location(lastClause)[1]), cs.mode,
                   cs.log)
        ELSE WithLastConsequent(cs, test, isElse,
                                parseEach(consequent, cs.mode, chapter))
      WithClauses(cs) ==
        IF ~cs.ok THEN Throw(cs.err, cs.mode, cs.log)
        ELSE IF ~isGroup(lastClause)
        THEN Throw(Error("ExpectedForm", lastClause.pos), cs.mode, cs.log)
        ELSE IF length(lastClause) < 2
        THEN Throw(Error("ExpectedForm", firstToken(lastClause).pos),
                   cs.mode, cs.log)
        ELSE LastClause(cs, unwrap(lastClause)[1], Tail(unwrap(lastClause)),
                        /\ isToken(unwrap(lastClause)[1])
                        /\ unwrap(lastClause)[1].type = "ELSE")
  IN Once(WithClauses, condClauses(clauses, mode, chapter))

\* parseSet with the element count checked from below only
parseSet_AtLeastThree(group, mode, chapter) ==
  IF length(group) < 3
  THEN Throw(Error("ExpectedForm", location(group)[1]), mode, <<>>)
  ELSE
  LET elements == unwrap(group)
      identifier == elements[2]
      expr == elements[3]
      Assigned(convertedExpr) ==
        IF ~convertedExpr.ok THEN convertedExpr
        ELSE Return(Reassignment(location(group),
                                 Identifier(toLocation(identifier),
                                            identifier.lexeme),
                                 convertedExpr.node),
                    convertedExpr.mode, convertedExpr.log)
  IN IF isGroup(identifier)
     THEN Throw(Error("ExpectedForm", location(identifier)[1]), mode, <<>>)
     ELSE IF identifier.type # "IDENTIFIER"
     THEN Throw(Error("ExpectedForm", identifier.pos), mode, <<>>)
     ELSE Once(Assigned, parseExpression(expr, mode, chapter))

\* SchemeParser.parseSet
parseSet(group, mode, chapter) ==
  IF length(group) # 3
  THEN Throw(Error("ExpectedForm", location(group)[1]), mode, <<>>)
  ELSE
  LET elements == unwrap(group)
      identifier == elements[2]
      expr == elements[3]
      Assigned(convertedExpr) ==
        IF ~convertedExpr.ok THEN convertedExpr
        ELSE Return(Reassignment(location(group),
                                 Identifier(toLocation(identifier),
                                            identifier.lexeme),
                                 convertedExpr.node),
                    convertedExpr.mode, convertedExpr.log)
  IN IF isGroup(identifier)
     THEN Throw(Error("ExpectedForm", location(identifier)[1]), mode, <<>>)
     ELSE IF identifier.type # "IDENTIFIER"
     THEN Throw(Error("ExpectedForm", identifier.pos), mode, <<>>)
     ELSE Once(Assigned, parseExpression(expr, mode, chapter))

\* SchemeParser.parseBegin
parseBegin(group, mode, chapter) ==
  IF length(group) < 2
  THEN Throw(Error("ExpectedForm", location(group)[1]), mode, <<>>)
  ELSE
  LET sequence == unwrap(group)
      sequenceElements == Tail(sequence)
      Converted(convertedExpressions) ==
        IF ~convertedExpressions.ok
        THEN Throw(convertedExpressions.err, convertedExpressions.mode,
                   convertedExpressions.log)
        ELSE Return(Begin(location(group), convertedExpressions.nodes),
                    convertedExpressions.mode, convertedExpressions.log)
  IN Once(Converted, parseEach(sequenceElements, mode, chapter))

\* SchemeParser.parseDelay
parseDelay(group, mode, chapter) ==
  IF length(group) # 2
  THEN Throw(Error("ExpectedForm", location(group)[1]), mode, <<>>)
  ELSE
  LET elements == unwrap(group)
      expr == elements[2]
      Delayed(convertedExpr) ==
        IF ~convertedExpr.ok THEN convertedExpr
        ELSE Return(Delay(location(group), convertedExpr.node),
                    convertedExpr.mode, convertedExpr.log)
  IN Once(Delayed, parseExpression(expr, mode, chapter))

RECURSIVE importIdentifiers(_)
\* the loop of parseImport over identifierElements: convertedIdentifiers, or
\* the first error thrown
importIdentifiers(identifierElements) ==
  IF Len(identifierElements) = 0 THEN [err |-> NoErr, identifiers |-> <<>>]
  ELSE
  LET identifierElement == Head(identifierElements)
      Others(rest) ==
        IF rest.err # NoErr THEN rest
        ELSE [rest EXCEPT
                !.identifiers =
                  <<Identifier(toLocation(identifierElement),
                               identifierElement.lexeme)>> \o @]
  IN IF ~isToken(identifierElement)
     THEN [err |-> Error("ExpectedForm", location(identifierElement)[1]),
           identifiers |-> <<>>]
     ELSE IF identifierElement.type # "IDENTIFIER"
     THEN [err |-> Error("ExpectedForm", identifierElement.pos),
           identifiers |-> <<>>]
     ELSE Once(Others, importIdentifiers(Tail(identifierElements)))

\* SchemeParser.parseImport
parseImport(group, is_js, mode, chapter) ==
  IF length(group) # 3
  THEN Throw(Error("ExpectedForm", firstToken(group).pos), mode, <<>>)
  ELSE
  LET elements == unwrap(group)
      source == elements[2]
      identifiers == elements[3]
      Imported(convertedIdentifiers) ==
        IF convertedIdentifiers.err # NoErr
        THEN Throw(convertedIdentifiers.err, mode, <<>>)
        ELSE Return(Import(location(group),
                           StringLiteral(toLocation(source), source.literal),
                           convertedIdentifiers.identifiers, is_js),
                    mode, <<>>)
  IN IF ~isToken(source)
     THEN Throw(Error("ExpectedForm", location(source)[1]), mode, <<>>)
     ELSE IF source.type # "STRING"
     THEN Throw(Error("ExpectedForm", source.pos), mode, <<>>)
     ELSE IF ~isGroup(identifiers)
     THEN Throw(Error("ExpectedForm", identifiers.pos), mode, <<>>)
     ELSE Once(Imported, importIdentifiers(unwrap(identifiers)))

\* SchemeParser.parseExport
parseExport(group, is_js, mode, chapter) ==
  IF length(group) # 2
  THEN Throw(Error("ExpectedForm", firstToken(group).pos), mode, <<>>)
  ELSE
  LET elements == unwrap(group)
      definition == elements[2]
      Exported(convertedDefinition) ==
        IF ~convertedDefinition.ok THEN convertedDefinition
        ELSE IF ~(convertedDefinition.node.type
                    \in {"Definition", "FunctionDefinition"})
        THEN Throw(Error("ExpectedForm", location(definition)[1]),
                   convertedDefinition.mode, convertedDefinition.log)
        ELSE Return(Export(location(group), convertedDefinition.node, is_js),
                    convertedDefinition.mode, convertedDefinition.log)
  IN IF ~isGroup(definition)
     THEN Throw(Error("ExpectedForm", definition.pos), mode, <<>>)
     ELSE Once(Exported, parseExpression(definition, mode, chapter))

\* SchemeParser.parseNormalGroup
parseNormalGroup(group, mode, chapter) ==
  IF length(group) = 0
  THEN Throw(Error("ExpectedForm", location(group)[1]), mode, <<>>)
  ELSE
  LET firstElement == unwrap(group)[1]
      \* `this.validateChapter(firstElement, c); return <parser>(group)`
      Gated(c, parsed) ==
        IF validateChapter(chapter, firstElement, c) # NoErr
        THEN Throw(validateChapter(chapter, firstElement, c), mode, <<>>)
        ELSE parsed
  IN IF isToken(firstElement)
     THEN CASE firstElement.type = "LAMBDA" ->
                 Gated(BASIC_CHAPTER, parseLambda(group, mode, chapter))
            [] firstElement.type = "DEFINE" ->
                 Gated(BASIC_CHAPTER, parseDefinition(group, mode, chapter))
            [] firstElement.type = "IF" ->
                 Gated(BASIC_CHAPTER, parseConditional(group, mode, chapter))
            [] firstElement.type = "LET" ->
                 Gated(BASIC_CHAPTER, parseLet(group, mode, chapter))
            [] firstElement.type = "COND" ->
                 Gated(BASIC_CHAPTER, parseExtendedCond(group, mode, chapter))
            [] firstElement.type \in
                 {"QUOTE", "APOSTROPHE", "QUASIQUOTE", "BACKTICK", "UNQUOTE",
                  "COMMA", "UNQUOTE_SPLICING", "COMMA_AT"} ->
                 Gated(QUOTING_CHAPTER,
                       parseAffectorGroup(group, mode, chapter))
            [] firstElement.type = "BEGIN" ->
                 Gated(MUTABLE_CHAPTER, parseBegin(group, mode, chapter))
            [] firstElement.type = "DELAY" ->
                 Gated(MUTABLE_CHAPTER, parseDelay(group, mode, chapter))
            [] firstElement.type = "SET" ->
                 Gated(MUTABLE_CHAPTER, parseSet(group, mode, chapter))
            [] firstElement.type = "IMPORT" ->
                 Gated(BASIC_CHAPTER, parseImport(group, FALSE, mode, chapter))
            [] firstElement.type = "JS_IMPORT" ->
                 Gated(BASIC_CHAPTER, parseImport(group, TRUE, mode, chapter))
            [] firstElement.type = "EXPORT" ->
                 Gated(BASIC_CHAPTER, parseExport(group, FALSE, mode, chapter))
            [] firstElement.type = "JS_EXPORT" ->
                 Gated(BASIC_CHAPTER, parseExport(group, TRUE, mode, chapter))
            [] firstElement.type = "VECTOR" ->
                 Gated(VECTOR_CHAPTER,
                       parseAffectorGroup(group, mode, chapter))
            [] OTHER -> parseApplication(group, mode, chapter)
     ELSE parseApplication(group, mode, chapter)

\* SchemeParser.parseGroup
parseGroup(group, mode, chapter) ==
  IF ~isParenthesized(group) THEN parseAffectorGroup(group, mode, chapter)
  ELSE IF mode = "NONE" THEN parseNormalGroup(group, mode, chapter)
  ELSE parseQuotedGroup(group, mode, chapter)

\* one record of the call history: a call of parseExpression, the datum it
\* was called on, the quoteMode at entry, and how the call ended
Call(expr, mode, r) ==
  [fn |-> "parseExpression", datum |-> expr, modeIn |-> mode, ok |-> r.ok, node |-> r.node,
   modeOut |-> r.mode, err |-> r.err]

\* SchemeParser.parseExpression
parseExpression(expr, mode, chapter) ==
  LET Logged(r) == [r EXCEPT !.log = <<Call(expr, mode, r)>> \o @]
  IN Once(Logged, IF expr = Undefined
            THEN Throw(Error("TypeError", UndefinedPos), mode, <<>>)
            ELSE IF isToken(expr) THEN parseToken(expr, mode)
            ELSE IF isSingleIdentifier(expr)
            THEN parseToken(unwrap(expr)[1], mode)
            ELSE parseGroup(expr, mode, chapter))

(***************************************************************************)
(* The inputs: the lexemes of the source texts handed to the parser.       *)
(***************************************************************************)
\* every text of at most MaxLen lexemes over the quoting syntax
Alphabet == {"lp", "rp", "x", "ap", "bt", "cm", "cmat", "hv"}
QuotingTexts == UNION {[1..n -> Alphabet] : n \in 0..MaxLen}

\* every parenthesized form that starts with a keyword (or an identifier)
\* and has at most MaxArgs further lexemes
Keywords ==
  {"if", "let", "cond", "else", "define", "lambda", "quote", "quasiquote",
   "unquote", "unquotesplicing", "set", "begin", "delay", "import", "export",
   "jsimport", "jsexport", "f"}
ArgAlphabet == {"x", "n1", "str", "lp", "rp"}
FormTexts ==
  {<<"lp", kw>> \o args \o <<"rp">> :
     kw \in Keywords, args \in UNION {[1..n -> ArgAlphabet] : n \in 0..MaxArgs}}

\* texts of the language, deeper than the enumerations above reach
Scenarios ==
  { <<"lp", "let", "lp", "lp", "x", "n1", "rp", "rp", "x", "rp">>,
    <<"lp", "define", "lp", "f", "x", "rp", "lp", "f", "x", "x", "rp", "rp">>,
    <<"lp", "define", "lp", "f", "x", "dot", "yy", "rp", "x", "rp">>,
    <<"lp", "define", "lp", "f", "rp", "n1", "rp">>,
    <<"lp", "define", "lp", "f", "n1", "rp", "n1", "rp">>,
    <<"lp", "define", "x", "ap", "yy", "rp">>,
    <<"lp", "define", "ap", "x", "n1", "rp">>,
    <<"lp", "define", "hv", "lp", "x", "yy", "rp", "n1", "rp">>,
    <<"lp", "lambda", "lp", "rp", "x", "rp">>,
    <<"lp", "lambda", "lp", "x", "rp", "x", "rp">>,
    <<"lp", "lambda", "lp", "x", "yy", "rp", "x", "yy", "rp">>,
    <<"lp", "lambda", "lp", "x", "dot", "yy", "rp", "yy", "rp">>,
    <<"lp", "lambda", "lp", "x", "dot", "yy", "rp", "lp", "lambda", "lp",
      "x", "rp", "x", "rp", "lp", "lambda", "lp", "rp", "x", "rp", "rp">>,
    <<"lp", "lambda", "lp", "dot", "yy", "rp", "yy", "rp">>,
    <<"lp", "lambda", "lp", "x", "dot", "rp", "x", "rp">>,
    <<"lp", "lambda", "lp", "x", "dot", "n1", "rp", "x", "rp">>,
    <<"lp", "lambda", "lp", "n1", "dot", "x", "rp", "x", "rp">>,
    <<"lp", "lambda", "lp", "lp", "x", "rp", "rp", "x", "rp">>,
    <<"lp", "lambda", "x", "x", "rp">>,
    <<"lp", "if", "tt", "n1", "rp">>,
    <<"lp", "if", "x", "ap", "x", "yy", "rp">>,
    <<"lp", "cond", "lp", "x", "rp", "lp", "else", "n1", "rp", "rp">>,
    <<"lp", "cond", "lp", "x", "n1", "tt", "rp", "lp", "yy", "x", "rp", "rp">>,
    <<"lp", "set", "x", "n1", "rp">>,
    <<"lp", "begin", "x", "ap", "yy", "rp">>,
    <<"lp", "delay", "lp", "f", "x", "rp", "rp">>,
    <<"lp", "import", "str", "lp", "x", "yy", "rp", "rp">>,
    <<"lp", "export", "lp", "define", "x", "n1", "rp", "rp">>,
    <<"lp", "jsexport", "lp", "f", "x", "rp", "rp">>,
    <<"lp", "vector", "x", "rp">>,
    <<"ap", "yy">>, <<"bt", "yy">>, <<"ap", "str">>, <<"bt", "tt">>,
    <<"str">>, <<"tt">>, <<"yy">>, <<"n1">>, <<"ap", "n1">>, <<"bt", "str">>,
    <<"ap", "lp", "x", "dot", "yy", "rp">>,
    <<"ap", "lp", "x", "yy", "dot", "n1", "rp">>,
    <<"ap", "lp", "dot", "x", "rp">>,
    <<"ap", "lp", "x", "dot", "rp">>,
    <<"ap", "lp", "x", "dot", "yy", "dot", "n1", "rp">>,
    <<"ap", "lp", "if", "lp", "x", "rp", "else", "rp">>,
    <<"ap", "lp", "x", "cm", "yy", "cmat", "f", "rp">>,
    <<"ap", "lp", "x", "ap", "yy", "bt", "f", "rp">>,
    <<"ap", "lp", "cm", "lp", "f", "x", "rp", "yy", "rp">>,
    <<"bt", "lp", "n1", "cm", "lp", "f", "n1", "x", "rp", "rp">>,
    <<"bt", "lp", "cm", "x", "yy", "rp">>,
    <<"bt", "lp", "ap", "x", "yy", "rp">>,
    <<"bt", "lp", "bt", "x", "yy", "rp">>,
    <<"bt", "lp", "x", "cm", "lp", "if", "x", "yy", "rp", "rp">>,
    <<"bt", "lp", "cm", "lp", "f", "ap", "x", "yy", "rp", "x", "rp">>,
    <<"bt", "lp", "cm", "lp", "f", "bt", "cm", "x", "rp", "yy", "rp">>,
    <<"bt", "lp", "x", "cmat", "yy", "rp">>,
    <<"bt", "lp", "unquote", "x", "rp">>,
    <<"bt", "cm", "lp", "unquote", "x", "rp">>,
    <<"bt", "cm", "lp", "quote", "x", "rp">>,
    <<"bt", "cm", "lp", "quasiquote", "lp", "x", "cm", "yy", "rp", "rp">>,
    <<"bt", "cm", "lp", "unquotesplicing", "x", "rp">>,
    <<"hv", "lp", "x", "cm", "yy", "rp">>,
    <<"hv", "lp", "x", "yy", "n1", "rp">>,
    <<"hv", "lp", "x", "hv", "lp", "yy", "rp", "rp">>,
    <<"hv", "lp", "x", "ap", "yy", "rp">>,
    <<"hv", "lp", "x", "lp", "lambda", "yy", "rp", "rp">>,
    <<"ap", "lp", "hv", "lp", "x", "rp", "yy", "rp">>,
    <<"bt", "lp", "hv", "lp", "x", "cm", "yy", "rp", "cm", "f", "rp">>,
    <<"lp", "f", "hv", "lp", "x", "rp", "yy", "rp">>,
    <<"lp", "f", "ap", "x", "yy", "rp">>,
    <<"lp", "f", "bt", "lp", "cm", "x", "rp", "yy", "rp">>,
    <<"x", "ap", "x", "yy">>,
    <<"x", "ap", "x", "ap", "n1">>,
    <<"ap", "cmat", "x", "bt", "cmat", "x">>,
    <<"ap", "x", "bt", "lp", "cm", "yy", "rp", "f">>,
    <<"hsc", "x", "yy">>,
    <<"hsc", "rp">>,
    <<"x", "ap", "hsc", "bt", "rb">>,
    <<"lp", "hsc", "x", "ap", "lp", "x", "rp", "rp">>,
    <<"hsc", "lp", "x", "rp", "ap", "hsc", "f", "yy">>,
    <<"lb", "f", "x", "rb">>,
    <<"hsc", "hsc", "x", "yy", "f">>,
    <<"lp", "f", "hsc", "hsc", "x", "yy", "ap", "hsc", "x", "n1", "rp",
      "hsc", "lp", "x", "rp">>,
    <<"ap", "hsc", "ap", "x", "lp", "hsc", "yy", "rp">>,
    <<"lp", "import", "str", "lp", "x", "n1", "rp", "rp">>,
    <<"lp", "import", "str", "lp", "lp", "x", "rp", "rp", "rp">>,
    <<"lp", "let", "lp", "lp", "n1", "x", "rp", "rp", "x", "rp">>,
    <<"lp", "lambda", "lp", "x", "n1", "rp", "x", "rp">>,
    <<"lp", "lambda", "n1", "x", "rp">>,
    <<"lp", "f", "x", "rb">>,
    <<"lb", "f", "x", "rp">>,
    <<"lb", "rb">>,
    <<"lb", "rp", "x">>,
    <<"lp", "f", "lb", "x", "rb", "rp">>,
    <<"lp", "f", "lb", "x", "rp", "rp">>,
    <<"ap", "lb", "x", "dot", "yy", "rb">> }

\* every form of a keyword with a fixed element count, with up to MaxArgs + 2
\* identifiers after the keyword
ArityKeywords ==
  {"lambda", "if", "set", "delay", "begin", "import", "jsimport", "export",
   "jsexport"}
ArityTexts ==
  {<<"lp", kw>> \o [k \in 1..n |-> "x"] \o <<"rp">> :
     kw \in ArityKeywords, n \in 0..(MaxArgs + 2)}

\* every cond form of at most MaxClauses clauses, each of these shapes
MaxClauses == 2
ClauseTexts ==
  { <<"x">>, <<"lp", "rp">>, <<"lp", "x", "rp">>, <<"lp", "x", "n1", "rp">>,
    <<"lp", "x", "n1", "yy", "rp">>, <<"lp", "else", "rp">>,
    <<"lp", "else", "n1", "rp">>, <<"lp", "else", "n1", "x", "rp">>,
    <<"lp", "cm", "x", "rp">>, <<"lp", "x", "cm", "yy", "rp">>, <<"ap", "x">> }
RECURSIVE ClauseLists(_)
ClauseLists(n) ==
  IF n = 0 THEN {<<>>}
  ELSE {clauses \o clause :
          clauses \in ClauseLists(n - 1), clause \in ClauseTexts}
CondTexts ==
  {<<"lp", "cond">> \o clauses \o <<"rp">> :
     clauses \in UNION {ClauseLists(n) : n \in 0..MaxClauses}}

\* every text of at most MaxLen lexemes with datum comments
CommentAlphabet == {"hsc", "x", "ap", "lp", "rp"}
CommentTexts == UNION {[1..n -> CommentAlphabet] : n \in 0..MaxLen}

Inputs ==
  QuotingTexts \cup FormTexts \cup Scenarios \cup ArityTexts \cup CondTexts
    \cup CommentTexts

\* the ceilings a caller configures, and the chapter argument of a call:
\* <<>> when it is omitted
Chapters == {1, 2, 3}
ChapterArgs == {<<>>} \cup {<<c>> : c \in Chapters}

(***************************************************************************)
(* The parser instance and the loop of SchemeParser.parse().               *)
(***************************************************************************)
VARIABLES
  tokens,       \* SchemeParser.tokens
  chapter,      \* SchemeParser.chapter
  current,      \* SchemeParser.current
  quoteMode,    \* SchemeParser.quoteMode
  topElements,  \* parse(): the local topElements
  currentElement, \* parse(): the local currentElement, <<>> before the loop
  produced,     \* history: the scanner's and the grouper's outputs as made
  pc,           \* parse(): "parse" in the loop, "returned", or "thrown"
  error,        \* the error parse() threw
  calls,        \* history: the parseExpression and destructureList calls made
  entry,        \* how the instance was made
  chapterArg,   \* the chapter argument the caller gave
  tz            \* the Tokenizer instance, its progress and the error it threw

vars ==
  <<tokens, chapter, current, quoteMode, topElements, currentElement,
    produced, pc, error, calls, entry, chapterArg, tz>>

\* no Tokenizer instance is observed
NoTokenizer == [pc |-> "none"]

\* SchemeParser.constructor(source, tokens, chapter = Infinity)
constructor(toks, chapterParam) ==
  /\ tokens = toks
  /\ chapter = IF chapterParam = <<>> THEN Infinity ELSE chapterParam[1]
  /\ current = 0
  /\ quoteMode = "NONE"
  /\ topElements = <<>>
  /\ currentElement = <<>>
  /\ produced = [tokens |-> toks, datum |-> <<>>]
  /\ pc = "parse"
  /\ error = NoErr
  /\ calls = <<>>

\* a parser made by `new SchemeParser(source, tokens, chapter)`
Init ==
  \E names \in Inputs, arg \in ChapterArgs :
    /\ entry = "SchemeParser"
    /\ chapterArg = arg
    /\ tz = NoTokenizer
    /\ constructor(scanTokens(names), arg)

\* SchemeParser.isAtEnd
isAtEnd == current >= Len(tokens)
\* SchemeParser.peek
peek == tokens[current + 1]

\* parse(): the loop condition fails or the EOF token is next
ParseReturns ==
  /\ pc = "parse"
  /\ isAtEnd \/ peek.type = "EOF"
  /\ pc' = "returned"
  /\ UNCHANGED <<tz, tokens, chapter, current, quoteMode, topElements,
                 currentElement, produced, error, calls, entry, chapterArg>>

\* parse(): one iteration in which this.grouping() throws
GroupingThrows ==
  /\ pc = "parse"
  /\ ~(isAtEnd \/ peek.type = "EOF")
  /\ \E grouped \in {grouping(tokens, current, <<>>)} :
       /\ grouped.err # NoErr
       /\ current' = grouped.cur
       /\ error' = grouped.err
       /\ pc' = "thrown"
  /\ UNCHANGED <<tz, tokens, chapter, quoteMode, topElements, currentElement,
                 produced, calls, entry, chapterArg>>

\* the iteration in which grouping() returns undefined, with the cursor left
\* where it was
GroupingEmpty_CursorKept ==
  /\ pc = "parse"
  /\ ~(isAtEnd \/ peek.type = "EOF")
  /\ \E grouped \in {grouping(tokens, current, <<>>)} :
       /\ grouped.err = NoErr
       /\ grouped.group = <<>>
       /\ current' = current
       /\ currentElement' = <<>>
       /\ produced' = [produced EXCEPT !.datum = <<>>]
  /\ UNCHANGED <<tz, tokens, chapter, quoteMode, topElements, pc, error, calls,
                 entry, chapterArg>>

\* parse(): one iteration in which this.grouping() returns undefined
GroupingEmpty ==
  /\ pc = "parse"
  /\ ~(isAtEnd \/ peek.type = "EOF")
  /\ \E grouped \in {grouping(tokens, current, <<>>)} :
       /\ grouped.err = NoErr
       /\ grouped.group = <<>>
       /\ current' = grouped.cur
       /\ currentElement' = <<>>
       /\ produced' = [produced EXCEPT !.datum = <<>>]
  /\ UNCHANGED <<tz, tokens, chapter, quoteMode, topElements, pc, error, calls,
                 entry, chapterArg>>

\* parse(): one iteration that pushes the converted element
ParseElement ==
  /\ pc = "parse"
  /\ ~(isAtEnd \/ peek.type = "EOF")
  /\ \E grouped \in {grouping(tokens, current, <<>>)} :
       /\ grouped.err = NoErr
       /\ grouped.group # <<>>
       /\ \E convertedElement \in
              {parseExpression(grouped.group[1], quoteMode, chapter)} :
            /\ convertedElement.ok
            /\ current' = grouped.cur
            /\ currentElement' =
                 <<afterSplices(grouped.group[1], convertedElement.log)>>
            /\ produced' = [produced EXCEPT !.datum = grouped.group]
            /\ quoteMode' = convertedElement.mode
            /\ calls' = calls \o convertedElement.log
            /\ topElements' = Append(topElements, convertedElement.node)
  /\ UNCHANGED <<tz, tokens, chapter, pc, error, entry, chapterArg>>

\* the iteration in which this.parseExpression throws, with the error caught
\* and kept while the loop goes on to the next datum
ParseExpressionThrows_Continues ==
  /\ pc = "parse"
  /\ ~(isAtEnd \/ peek.type = "EOF")
  /\ \E grouped \in {grouping(tokens, current, <<>>)} :
       /\ grouped.err = NoErr
       /\ grouped.group # <<>>
       /\ \E convertedElement \in
              {parseExpression(grouped.group[1], quoteMode, chapter)} :
            /\ ~convertedElement.ok
            /\ current' = grouped.cur
            /\ currentElement' =
                 <<afterSplices(grouped.group[1], convertedElement.log)>>
            /\ produced' = [produced EXCEPT !.datum = grouped.group]
            /\ quoteMode' = convertedElement.mode
            /\ calls' = calls \o convertedElement.log
            /\ error' = convertedElement.err
  /\ UNCHANGED <<tz, tokens, chapter, topElements, pc, entry, chapterArg>>

\* parse(): one iteration in which this.parseExpression throws
ParseExpressionThrows ==
  /\ pc = "parse"
  /\ ~(isAtEnd \/ peek.type = "EOF")
  /\ \E grouped \in {grouping(tokens, current, <<>>)} :
       /\ grouped.err = NoErr
       /\ grouped.group # <<>>
       /\ \E convertedElement \in
              {parseExpression(grouped.group[1], quoteMode, chapter)} :
            /\ ~convertedElement.ok
            /\ current' = grouped.cur
            /\ currentElement' =
                 <<afterSplices(grouped.group[1], convertedElement.log)>>
            /\ produced' = [produced EXCEPT !.datum = grouped.group]
            /\ quoteMode' = convertedElement.mode
            /\ calls' = calls \o convertedElement.log
            /\ error' = convertedElement.err
            /\ pc' = "thrown"
  /\ UNCHANGED <<tz, tokens, chapter, topElements, entry, chapterArg>>

Next ==
  \/ ParseReturns
  \/ GroupingThrows
  \/ GroupingEmpty
  \/ ParseElement
  \/ ParseExpressionThrows

Spec == Init /\ [][Next]_vars

\* the texts on which the progress of parse() is followed to its end: every
\* text of at most MaxLen lexemes of lists, quotes and datum comments, the
\* forms with too few and too many elements and the texts of the language
LiveTexts == CommentTexts \cup ArityTexts \cup Scenarios

\* parse() is a sequential loop that runs until it returns or throws: a
\* step that can be taken is taken
InitLive ==
  \E names \in LiveTexts, arg \in ChapterArgs :
    /\ entry = "SchemeParser"
    /\ chapterArg = arg
    /\ tz = NoTokenizer
    /\ constructor(scanTokens(names), arg)

SpecLive == InitLive /\ [][Next]_vars /\ WF_vars(Next)

TypeOK ==
  /\ quoteMode \in QuoteModes
  /\ pc \in {"parse", "returned", "thrown"}
  /\ current \in 0..Len(tokens)

(***************************************************************************)
(* The entry points schemeParse(source, chapter?).                         *)
(***************************************************************************)
\* src/token-type.ts:
\* `new Parser(source, tokenizer.scanTokens(), chapter)`
schemeParse(names, chapterParam) ==
  constructor(scanTokens(names), chapterParam)

\* src/parser/index.ts:
\* `new SExpressionParser(source, tokenizer.scanTokens())`, the chapter
\* parameter is not handed on
schemeParseIndex(names, chapterParam) ==
  constructor(scanTokens(names), <<>>)

EntryInputs == FormTexts \cup Scenarios

\* a parser made by a call schemeParse(source, chapter?) of either module
InitEntry ==
  \E names \in EntryInputs, arg \in ChapterArgs :
    /\ chapterArg = arg
    /\ tz = NoTokenizer
    /\ \/ entry = "token-type.ts" /\ schemeParse(names, arg)
       \/ entry = "parser/index.ts" /\ schemeParseIndex(names, arg)

SpecEntry == InitEntry /\ [][Next]_vars

(***************************************************************************)
(* The call history read by the properties below.                          *)
(***************************************************************************)
\* the positions in `calls` of the parseExpression calls, and of the
\* destructureList calls
PCalls == {i \in DOMAIN calls : calls[i].fn = "parseExpression"}
DCalls == {i \in DOMAIN calls : calls[i].fn = "destructureList"}

\* parseExpression was called on the datum, and the record of that call
Parsed(datum) == \E i \in PCalls : calls[i].datum = datum
CallOn(datum) == calls[CHOOSE i \in PCalls : calls[i].datum = datum]

\* the datum is a token, or the group of one token alone; that token
IsAtom(datum) ==
  isToken(datum) \/ (isGroup(datum) /\ isSingleIdentifier(datum))
AtomOf(datum) == IF isToken(datum) THEN datum ELSE unwrap(datum)[1]

\* the datum is the atom of an identifier
IsIdentifierDatum(datum) ==
  IsAtom(datum) /\ AtomOf(datum).type = "IDENTIFIER"

\* the call reaches parseAffectorGroup: a marker and its target, or in mode
\* NONE a parenthesized form that starts with a keyword of the quote family
ReachesAffector(c) ==
  /\ isGroup(c.datum)
  /\ ~isSingleIdentifier(c.datum)
  /\ \/ ~isParenthesized(c.datum)
     \/ /\ c.modeIn = "NONE"
        /\ length(c.datum) >= 1
        /\ isToken(unwrap(c.datum)[1])
        /\ unwrap(c.datum)[1].type \in
             {"QUOTE", "QUASIQUOTE", "UNQUOTE", "UNQUOTE_SPLICING"}

\* the affector of such a call, and whether it has a target
AffectorOf(c) == unwrap(c.datum)[1]
AffectorIs(c, types) == ReachesAffector(c) /\ AffectorOf(c).type \in types
HasTarget(c) == Len(unwrap(c.datum)) >= 2
TargetOf(c) == unwrap(c.datum)[2]

\* the node is the two-element list (name <node>) that starts at the affector
IsTaggedList(node, affector, name, inner) ==
  /\ node.type = "List"
  /\ node.elements = <<Symbol(toLocation(affector), name), inner>>
  /\ node.terminator = <<>>

\* C1: an identifier parsed while quoteMode is NONE is an Identifier of that
\* name; 'x parsed from NONE (under a ceiling that admits quoting) is a Symbol
\* of the same lexeme; a number, boolean or string token is the same literal
\* node whatever the quote mode
C1_QuoteModeLaw ==
  \A i \in PCalls :
    LET c == calls[i]
        token == AtomOf(c.datum)
    IN /\ (IsIdentifierDatum(c.datum) /\ c.modeIn = "NONE") =>
            /\ c.ok
            /\ c.node.type = "Identifier"
            /\ c.node.name = token.lexeme
       /\ ( /\ AffectorIs(c, {"APOSTROPHE"})
            /\ IsIdentifierDatum(TargetOf(c))
            /\ c.modeIn = "NONE"
            /\ chapter >= QUOTING_CHAPTER ) =>
            /\ c.ok
            /\ c.node.type = "Symbol"
            /\ c.node.value = AtomOf(TargetOf(c)).lexeme
       /\ ( /\ IsAtom(c.datum)
            /\ token.type \in {"NUMBER", "BOOLEAN", "STRING"} ) =>
            /\ c.ok
            /\ c.node.type =
                 (CASE token.type = "NUMBER" -> "NumericLiteral"
                    [] token.type = "BOOLEAN" -> "BooleanLiteral"
                    [] token.type = "STRING" -> "StringLiteral")
            /\ c.node.value = token.literal
            /\ c.node.loc = <<token.pos, token.endPos>>

\* C1 witness: x, 'x and a quoted literal have all been parsed
C1_Witness ==
  /\ \E i \in PCalls :
       /\ IsIdentifierDatum(calls[i].datum)
       /\ calls[i].modeIn = "NONE"
       /\ calls[i].node.type = "Identifier"
  /\ \E i \in PCalls :
       /\ AffectorIs(calls[i], {"APOSTROPHE"})
       /\ calls[i].modeIn = "NONE"
       /\ calls[i].node.type = "Symbol"
  /\ \E i \in PCalls :
       /\ isGroup(calls[i].datum)
       /\ isSingleIdentifier(calls[i].datum)
       /\ calls[i].modeIn = "QUOTE"
       /\ calls[i].node.type = "NumericLiteral"

\* the forms the semantic parser dispatches on their first token: an affector
\* and its target in any mode, and in mode NONE a parenthesized group that
\* starts with a keyword; FormToken is that token
Dispatches(c) ==
  /\ isGroup(c.datum)
  /\ ~isSingleIdentifier(c.datum)
  /\ \/ ~isParenthesized(c.datum)
     \/ /\ c.modeIn = "NONE"
        /\ length(c.datum) >= 1
        /\ isToken(unwrap(c.datum)[1])
FormToken(c) == unwrap(c.datum)[1]

\* the minimum chapter of a form, by the kind of its first token; 0 for a
\* form that has none (an application)
MinimumChapter(type) ==
  CASE type \in {"LAMBDA", "DEFINE", "IF", "LET", "COND", "IMPORT",
                 "JS_IMPORT", "EXPORT", "JS_EXPORT"} -> 1
    [] type \in {"QUOTE", "APOSTROPHE", "QUASIQUOTE", "BACKTICK", "UNQUOTE",
                 "COMMA", "UNQUOTE_SPLICING", "COMMA_AT"} -> 2
    [] type \in {"HASH_VECTOR", "VECTOR", "SET", "BEGIN", "DELAY"} -> 3
    [] OTHER -> 0

\* the call is the dispatch of a form above the ceiling
AboveCeiling(c, ceiling) ==
  Dispatches(c) /\ MinimumChapter(FormToken(c).type) > ceiling

\* C2: a dispatched form whose minimum chapter is above the ceiling makes the
\* parse fail with DisallowedToken at the form's first token, whatever else is
\* wrong with the form; DisallowedToken is raised by nothing but such a form;
\* with ceiling 1, (let ((x 1)) x) is parsed and 'x fails with DisallowedToken
C2_ChapterGating ==
  /\ \A i \in PCalls :
       LET c == calls[i]
       IN IF AboveCeiling(c, chapter)
          THEN /\ ~c.ok
               /\ c.err = Error("DisallowedToken", FormToken(c).pos)
               /\ pc = "thrown"
               /\ error = c.err
          ELSE c.err.kind = "DisallowedToken" =>
                 \E j \in PCalls :
                   AboveCeiling(calls[j], chapter) /\ calls[j].err = c.err
  /\ error.kind = "DisallowedToken" =>
       \E j \in PCalls : AboveCeiling(calls[j], chapter)
  /\ ( /\ tokens = scanTokens(<<"lp", "let", "lp", "lp", "x", "n1", "rp",
                                "rp", "x", "rp">>)
       /\ chapter = 1
       /\ current > 0 ) =>
       /\ pc # "thrown"
       /\ Len(topElements) = 1
       /\ topElements[1].type = "Let"
  /\ (tokens = scanTokens(<<"ap", "x">>) /\ chapter = 1 /\ current > 0) =>
       /\ pc = "thrown"
       /\ error.kind = "DisallowedToken"

\* C2 witness: a malformed form above the ceiling has been rejected with
\* DisallowedToken
C2_Witness ==
  \E i \in PCalls :
    /\ AboveCeiling(calls[i], chapter)
    /\ FormToken(calls[i]).type = "SET"
    /\ length(calls[i].datum) # 3
    /\ pc = "thrown"
    /\ error.kind = "DisallowedToken"

\* the ceiling the caller of the entry point asked for
GivenCeiling == IF chapterArg = <<>> THEN Infinity ELSE chapterArg[1]

\* C3: the entry point applies the ceiling it is given: a form above that
\* ceiling makes it fail with DisallowedToken, and with the argument omitted
\* nothing is rejected with DisallowedToken
C3_EntryAppliesCeiling ==
  /\ \A i \in PCalls :
       AboveCeiling(calls[i], GivenCeiling) =>
         pc = "thrown" /\ error.kind = "DisallowedToken"
  /\ chapterArg = <<>> => error.kind # "DisallowedToken"

\* the nodes of the parseExpression calls on the elements of a list, in order
NodesOf(list) == [k \in 1..Len(list) |-> CallOn(list[k]).node]

\* what the formal-identifier verifier accepts
IsFormal(datum) == isToken(datum) /\ datum.type = "IDENTIFIER"

\* C4: destructureList(L) returns (<<>>, none) for an empty L, (<<parse e>>,
\* none) for L = <<e>>, (the parses of the elements before the dot, the parse
\* of the last element) when the second-to-last of at least two elements is
\* the DOT token, and otherwise (the parses of all the elements, none); with a
\* verifier, no result is returned unless the verifier accepts every prefix
\* element and the tail
C4_DottedListLaw ==
  \A i \in DCalls :
    LET d == calls[i]
        L == d.list
        n == Len(L)
        dotted == n >= 2 /\ isToken(L[n - 1]) /\ L[n - 1].type = "DOT"
        before == IF dotted THEN SubSeq(L, 1, n - 2) ELSE L
        verified == /\ \A k \in 1..Len(before) : IsFormal(before[k])
                    /\ dotted => IsFormal(L[n])
    IN /\ d.ok =>
            /\ \A k \in 1..Len(before) :
                 Parsed(before[k]) /\ CallOn(before[k]).ok
            /\ d.prefix = NodesOf(before)
            /\ dotted => Parsed(L[n]) /\ CallOn(L[n]).ok
            /\ d.tail = IF dotted THEN <<CallOn(L[n]).node>> ELSE <<>>
            /\ d.which = "identifier" => verified
       /\ (d.which = "identifier" /\ ~verified) =>
            ~d.ok /\ d.err.kind = "ExpectedForm"
       /\ n = 0 => d.ok /\ d.prefix = <<>> /\ d.tail = <<>>
       /\ (n = 1 /\ d.ok) => d.prefix = <<CallOn(L[1]).node>> /\ d.tail = <<>>

\* C4 witness: a dotted list of formals, a list of one and an empty list have
\* been destructured
C4_Witness ==
  /\ \E i \in DCalls :
       /\ calls[i].ok
       /\ calls[i].which = "identifier"
       /\ Len(calls[i].prefix) = 1
       /\ calls[i].tail # <<>>
  /\ \E i \in DCalls :
       calls[i].ok /\ Len(calls[i].list) = 1 /\ calls[i].tail = <<>>
  /\ \E i \in DCalls : calls[i].ok /\ Len(calls[i].list) = 0

\* C5: unquote on target T, under a ceiling that admits quoting: in mode NONE
\* it fails with UnsupportedToken; in mode QUOTE T is parsed under QUOTE, the
\* result is the list (unquote <T>) and the mode stays QUOTE; in mode
\* QUASIQUOTE T is parsed in mode NONE (an identifier is an Identifier), the
\* result is the node of T and the mode is QUASIQUOTE again afterwards
C5_Unquote ==
  \A i \in PCalls :
    LET c == calls[i]
    IN ( /\ AffectorIs(c, {"COMMA", "UNQUOTE"})
         /\ chapter >= QUOTING_CHAPTER ) =>
         CASE c.modeIn = "NONE" ->
                ~c.ok /\ c.err = Error("UnsupportedToken", AffectorOf(c).pos)
           [] c.modeIn = "QUOTE" ->
                /\ Parsed(TargetOf(c))
                /\ CallOn(TargetOf(c)).modeIn = "QUOTE"
                /\ c.ok = CallOn(TargetOf(c)).ok
                /\ c.ok =>
                     /\ IsTaggedList(c.node, AffectorOf(c), "unquote",
                                     CallOn(TargetOf(c)).node)
                     /\ c.modeOut = "QUOTE"
           [] c.modeIn = "QUASIQUOTE" ->
                /\ Parsed(TargetOf(c))
                /\ CallOn(TargetOf(c)).modeIn = "NONE"
                /\ c.ok = CallOn(TargetOf(c)).ok
                /\ IsIdentifierDatum(TargetOf(c)) =>
                     c.ok /\ c.node.type = "Identifier"
                /\ c.ok =>
                     /\ c.node = CallOn(TargetOf(c)).node
                     /\ c.modeOut = "QUASIQUOTE"

\* C5 witness: inside a quasiquote an unquoted application has been parsed as
\* live code, and the quasiquote has returned
C5_Witness ==
  /\ \E i \in PCalls :
       /\ AffectorIs(calls[i], {"COMMA"})
       /\ calls[i].modeIn = "QUASIQUOTE"
       /\ calls[i].ok
       /\ calls[i].node.type = "Application"
  /\ pc = "parse"
  /\ Len(topElements) > 0

\* the two-armed law of quote (mode m = QUOTE) and quasiquote (m = QUASIQUOTE)
\* for a call c on a marker of the given kinds with a target
QuotingLaw(c, types, m, name) ==
  ( /\ AffectorIs(c, types)
    /\ HasTarget(c)
    /\ chapter >= QUOTING_CHAPTER ) =>
    /\ Parsed(TargetOf(c))
    /\ c.ok = CallOn(TargetOf(c)).ok
    /\ IF c.modeIn = "NONE"
       THEN /\ CallOn(TargetOf(c)).modeIn = m
            /\ c.ok =>
                 /\ c.node = CallOn(TargetOf(c)).node
                 /\ c.modeOut = "NONE"
       ELSE /\ CallOn(TargetOf(c)).modeIn = c.modeIn
            /\ c.ok =>
                 /\ IsTaggedList(c.node, AffectorOf(c), name,
                                 CallOn(TargetOf(c)).node)
                 /\ c.modeOut = c.modeIn

\* C6: quote (quasiquote) on target T, under a ceiling that admits quoting:
\* from mode NONE, T is parsed in mode QUOTE (QUASIQUOTE), the result is the
\* node of T and the mode is NONE afterwards; from mode QUOTE or QUASIQUOTE,
\* T is parsed in the ambient mode, which does not change, and the result is
\* the list (quote <T>) (respectively (quasiquote <T>))
C6_QuoteQuasiquote ==
  \A i \in PCalls :
    /\ QuotingLaw(calls[i], {"APOSTROPHE", "QUOTE"}, "QUOTE", "quote")
    /\ QuotingLaw(calls[i], {"BACKTICK", "QUASIQUOTE"}, "QUASIQUOTE",
                  "quasiquote")

\* C6 witness: a quote inside a quasiquote has been wrapped in a list, and the
\* quasiquote around it has been entered from NONE and has returned
C6_Witness ==
  /\ \E i \in PCalls :
       /\ AffectorIs(calls[i], {"APOSTROPHE"})
       /\ calls[i].modeIn = "QUASIQUOTE"
       /\ calls[i].ok
       /\ calls[i].node.type = "List"
  /\ \E i \in PCalls :
       /\ AffectorIs(calls[i], {"BACKTICK"})
       /\ calls[i].modeIn = "NONE"
       /\ calls[i].ok
       /\ calls[i].modeOut = "NONE"

\* C7: unquote-splicing on target T, under a ceiling that admits quoting: in
\* mode QUOTE the result is the list (unquote-splicing <T>), T parsed under
\* QUOTE and the mode unchanged; in mode QUASIQUOTE it fails with
\* UnsupportedToken; no call ever returns a SpliceMarker node
C7_UnquoteSplicing ==
  \A i \in PCalls :
    LET c == calls[i]
    IN /\ c.node.type # "SpliceMarker"
       /\ ( /\ AffectorIs(c, {"COMMA_AT", "UNQUOTE_SPLICING"})
            /\ chapter >= QUOTING_CHAPTER
            /\ c.modeIn = "QUOTE" ) =>
            /\ Parsed(TargetOf(c))
            /\ CallOn(TargetOf(c)).modeIn = "QUOTE"
            /\ c.ok = CallOn(TargetOf(c)).ok
            /\ c.ok =>
                 /\ IsTaggedList(c.node, AffectorOf(c), "unquote-splicing",
                                 CallOn(TargetOf(c)).node)
                 /\ c.modeOut = "QUOTE"
       /\ ( /\ AffectorIs(c, {"COMMA_AT", "UNQUOTE_SPLICING"})
            /\ chapter >= QUOTING_CHAPTER
            /\ c.modeIn = "QUASIQUOTE" ) =>
            /\ ~c.ok
            /\ c.err = Error("UnsupportedToken", AffectorOf(c).pos)
            /\ ~Parsed(TargetOf(c))

\* C7 witness: an unquote-splicing has been recorded as a list under a quote,
\* and another has been refused under a quasiquote
C7_Witness ==
  /\ \E i \in PCalls :
       /\ AffectorIs(calls[i], {"COMMA_AT"})
       /\ calls[i].modeIn = "QUOTE"
       /\ calls[i].ok
  /\ \E i \in PCalls :
       /\ AffectorIs(calls[i], {"COMMA_AT"})
       /\ calls[i].modeIn = "QUASIQUOTE"
       /\ calls[i].err.kind = "UnsupportedToken"

\* C8: unquote-splicing in mode NONE, under a ceiling that admits quoting,
\* fails with the error of an unquote in mode NONE: UnsupportedToken
C8_SplicingOutsideQuotation ==
  \A i \in PCalls :
    ( /\ AffectorIs(calls[i], {"COMMA_AT", "UNQUOTE_SPLICING"})
      /\ chapter >= QUOTING_CHAPTER
      /\ calls[i].modeIn = "NONE" ) =>
      ~calls[i].ok /\ calls[i].err.kind = "UnsupportedToken"

\* the call is on a vector marker and a parenthesized group
IsVectorOfGroup(c) ==
  /\ AffectorIs(c, {"HASH_VECTOR"})
  /\ isGroup(TargetOf(c))
  /\ isParenthesized(TargetOf(c))

\* C9: the vector marker on a parenthesized group, under a ceiling that admits
\* vectors and whatever the ambient mode: every element parsed is parsed in
\* mode QUOTE (an identifier is a Symbol, an unquote is the list (unquote T)),
\* the result is the Vector of the elements' nodes in order, and the mode
\* afterwards is the ambient mode
C9_VectorForcesQuote ==
  \A i \in PCalls :
    LET c == calls[i]
        elements == unwrap(TargetOf(c))
    IN (IsVectorOfGroup(c) /\ chapter >= VECTOR_CHAPTER) =>
         /\ Len(elements) > 0 => Parsed(elements[1])
         /\ \A k \in 1..Len(elements) :
              Parsed(elements[k]) =>
                LET e == CallOn(elements[k])
                IN /\ e.modeIn = "QUOTE"
                   /\ IsIdentifierDatum(e.datum) =>
                        e.ok /\ e.node.type = "Symbol"
                   /\ (AffectorIs(e, {"COMMA"}) /\ e.ok) =>
                        IsTaggedList(e.node, AffectorOf(e), "unquote",
                                     CallOn(TargetOf(e)).node)
         /\ c.ok =>
              /\ \A k \in 1..Len(elements) : Parsed(elements[k])
              /\ c.node.type = "Vector"
              /\ c.node.elements = NodesOf(elements)
              /\ c.modeOut = c.modeIn

\* C9 witness: a vector with an identifier and an unquote among its elements
\* has been parsed inside a quasiquote
C9_Witness ==
  \E i \in PCalls :
    /\ IsVectorOfGroup(calls[i])
    /\ calls[i].modeIn = "QUASIQUOTE"
    /\ calls[i].ok
    /\ Len(calls[i].node.elements) = 2
    /\ calls[i].node.elements[1].type = "Symbol"
    /\ calls[i].node.elements[2].type = "List"

\* C10: quoteMode is one of NONE, QUOTE, QUASIQUOTE; a parseExpression call
\* that returns leaves quoteMode as it found it; so each top-level datum is
\* parsed starting in mode NONE
C10_QuoteModeRestored ==
  /\ quoteMode \in QuoteModes
  /\ \A i \in PCalls :
       /\ calls[i].modeIn \in QuoteModes
       /\ calls[i].modeOut \in QuoteModes
       /\ calls[i].ok => calls[i].modeOut = calls[i].modeIn
  /\ pc \in {"parse", "returned"} => quoteMode = "NONE"

\* C10 witness: after a datum with affectors nested three deep (a quasiquote,
\* an unquote in it and a quote in that) the loop is about to parse the next
C10_Witness ==
  /\ pc = "parse"
  /\ Len(topElements) > 0
  /\ \E i \in PCalls :
       /\ AffectorIs(calls[i], {"APOSTROPHE"})
       /\ calls[i].modeIn = "NONE"
       /\ calls[i].ok
       /\ \E j \in PCalls :
            /\ AffectorIs(calls[j], {"COMMA"})
            /\ calls[j].modeIn = "QUASIQUOTE"
            /\ calls[j].ok
            /\ j < i

(***************************************************************************)
(* Spans.                                                                  *)
(***************************************************************************)
\* the union of the spans of the tokens of a datum: from the first character
\* of its first token to the last character of its last token
SpanOf(datum) ==
  IF isToken(datum) THEN toLocation(datum)
  ELSE <<firstToken(datum).pos, lastToken(datum).endPos>>

\* some token of the source lies inside the span loc
CoversToken(loc) ==
  \E k \in 1..(Len(tokens) - 1) :
    loc[1] <= tokens[k].pos /\ tokens[k].endPos <= loc[2]

\* the call built a conditional whose alternate was defaulted
DefaultsAlternate(c) ==
  /\ c.ok
  /\ c.node.type = "Conditional"
  /\ isGroup(c.datum)
  /\ length(c.datum) = 3

\* C11: after a successful parse, the node every parseExpression call built
\* spans exactly the tokens of the datum it was built from, and the alternate
\* a conditional defaults spans no token of the source
C11_SpanLaw ==
  pc = "returned" =>
    \A i \in PCalls :
      /\ calls[i].node.loc = SpanOf(calls[i].datum)
      /\ DefaultsAlternate(calls[i]) =>
           ~CoversToken(calls[i].node.alternate.loc)

(***************************************************************************)
(* The grouper alone.                                                      *)
(***************************************************************************)
RECURSIVE Flatten(_)
\* the tokens of a datum in order, delimiters and affectors included
Flatten(datum) ==
  IF isToken(datum) THEN <<datum>>
  ELSE IF Len(datum.elements) = 1 THEN Flatten(datum.elements[1])
  ELSE Flatten(datum.elements[1])
         \o Flatten(Group(Tail(datum.elements)))

\* the grouper run again on the tokens of a datum, closed by the EOF token
Regrouped(datum) ==
  grouping(Append(Flatten(datum), tokens[Len(tokens)]), 0, <<>>)

\* C12: a datum tree the grouper produces is the tree the grouper produces
\* from its own flattened token sequence
C12_GroupingIdempotent ==
  produced.datum # <<>> =>
    /\ Regrouped(produced.datum[1]).err = NoErr
    /\ Regrouped(produced.datum[1]).group = produced.datum

\* C12 witness: the datum grouped holds an affector group on a parenthesized
\* target and is shorter than the tokens consumed for it, a datum comment
\* having been dropped
C12_Witness ==
  /\ produced.datum # <<>>
  /\ Len(topElements) = 1
  /\ Len(Flatten(produced.datum[1])) < current
  /\ \E k \in 1..Len(produced.datum[1].elements) :
       LET e == produced.datum[1].elements[k]
       IN /\ isGroup(e)
          /\ ~isParenthesized(e)
          /\ Len(e.elements) = 2
          /\ isParenthesized(e.elements[2])

\* the EOF token, the last of the token sequence
EOFToken == tokens[Len(tokens)]

\* the grouper has consumed the EOF token: the parse loop never starts a
\* datum at EOF, so it was reached inside an open list or by a marker that
\* was waiting for its target
ReachedEOF == current = Len(tokens)

\* C13: when the grouper reaches the EOF token inside an open context, parse
\* fails with UnexpectedEOF positioned at the EOF token; the source ( does so
C13_UnterminatedInput ==
  /\ ReachedEOF =>
       /\ pc = "thrown"
       /\ error = Error("UnexpectedEOF", EOFToken.pos)
  /\ (tokens = scanTokens(<<"lp">>) /\ pc # "parse") =>
       /\ pc = "thrown"
       /\ error = Error("UnexpectedEOF", EOFToken.pos)

\* C13 witness: after a first datum was parsed, the input ended on a marker
\* that was waiting for its target
C13_Witness ==
  /\ ReachedEOF
  /\ pc = "thrown"
  /\ Len(topElements) > 0
  /\ Len(tokens) >= 3
  /\ tokens[Len(tokens) - 1].type \in
       {"APOSTROPHE", "BACKTICK", "COMMA", "COMMA_AT", "HASH_VECTOR",
        "HASH_SEMICOLON"}

\* the tokens that wait for a target datum: the short affectors and the datum
\* comment marker
IsMarker(token) ==
  token.type \in {"APOSTROPHE", "BACKTICK", "COMMA", "COMMA_AT",
                  "HASH_VECTOR", "HASH_SEMICOLON"}

IsClose(token) == token.type \in {"RIGHT_PAREN", "RIGHT_BRACKET"}

\* a grouping call with no open list that starts after the k-th token meets,
\* after markers only, the close delimiter at index j
StrayClose(k, j) ==
  /\ k < j
  /\ j < Len(tokens)
  /\ IsClose(tokens[j])
  /\ \A m \in (k + 1)..(j - 1) : IsMarker(tokens[m])

\* C14: a close delimiter met by a grouping call that has no open list, at
\* top level or as the would-be target of an affector or datum comment, fails
\* with UnexpectedForm positioned at that delimiter; so does parse on a source
\* that starts with one
C14_StrayClose ==
  /\ \A k \in 0..Len(tokens), j \in 1..Len(tokens) :
       StrayClose(k, j) =>
         grouping(tokens, k, <<>>).err = Error("UnexpectedForm", tokens[j].pos)
  /\ (produced.datum = <<>> /\ Len(topElements) = 0 /\ pc # "parse"
        /\ StrayClose(0, current)) =>
       pc = "thrown" /\ error = Error("UnexpectedForm", tokens[current].pos)

\* C14 witness: after a first datum was parsed, parse failed on a close
\* delimiter that two markers were waiting for
C14_Witness ==
  /\ pc = "thrown"
  /\ Len(topElements) = 1
  /\ current >= 4
  /\ StrayClose(current - 3, current)
  /\ error = Error("UnexpectedForm", tokens[current].pos)

RECURSIVE TopLevel(_, _, _)
\* the top-level data of the source taken one after the other from the token
\* after index cur: each is grouped and then parsed before the next is
\* looked at; the nodes of the data before the earliest one that fails, the
\* error of that one and the cursor where its grouping stopped
TopLevel(cur, mode, nodes) ==
  IF cur >= Len(tokens) \/ tokens[cur + 1].type = "EOF"
  THEN [ok |-> TRUE, nodes |-> nodes, cur |-> cur, err |-> NoErr]
  ELSE LET g == grouping(tokens, cur, <<>>)
       IN IF g.err # NoErr
          THEN [ok |-> FALSE, nodes |-> nodes, cur |-> g.cur, err |-> g.err]
          ELSE IF g.group = <<>> THEN TopLevel(g.cur, mode, nodes)
          ELSE LET r == parseExpression(g.group[1], mode, chapter)
               IN IF ~r.ok
                  THEN [ok |-> FALSE, nodes |-> nodes, cur |-> g.cur,
                        err |-> r.err]
                  ELSE TopLevel(g.cur, r.mode, Append(nodes, r.node))

\* C15: parse returns one node per visible top-level datum, in source order,
\* and no error; or it throws one error, that of the earliest top-level datum
\* that fails in grouping or in parsing, with the cursor where the grouping of
\* that datum stopped, and returns nothing
C15_FailFast ==
  LET expected == TopLevel(0, "NONE", <<>>)
  IN /\ pc = "parse" => error = NoErr
     /\ pc = "returned" =>
          /\ expected.ok
          /\ error = NoErr
          /\ topElements = expected.nodes
     /\ pc = "thrown" =>
          /\ ~expected.ok
          /\ error # NoErr
          /\ error = expected.err
          /\ current = expected.cur
          /\ topElements = expected.nodes
          /\ ~ENABLED Next

\* C15 witness: the second top-level datum failed in semantic parsing after
\* the first was parsed, and tokens of a later datum were never consumed
C15_Witness ==
  /\ pc = "thrown"
  /\ Len(topElements) = 1
  /\ produced.datum # <<>>
  /\ Parsed(produced.datum[1])
  /\ ~CallOn(produced.datum[1]).ok
  /\ current < Len(tokens) - 1

\* the structured, position-carrying error kinds the grouper and the
\* semantic parser can raise
StructuredKinds ==
  {"UnexpectedEOF", "UnexpectedForm", "ExpectedForm", "DisallowedToken",
   "UnsupportedToken"}

\* C16: whatever the source and the ceiling, parse returns or fails with one
\* of the structured error kinds; no input ends in an unstructured failure
C16_ClosedTaxonomy ==
  pc = "thrown" => error.kind \in StructuredKinds

\* C17: semantic parsing, whether it returns or throws, leaves the token
\* sequence as the scanner made it and the datum tree, the element sequence
\* of every Group in it, as the grouper made it
C17_NoMutation ==
  /\ tokens = produced.tokens
  /\ currentElement = produced.datum

(***************************************************************************)
(* The shape of the AST.  A node the parser builds is told from every      *)
(* other by its type and span, so one node held in two child slots shows   *)
(* as two equal entries among the slots.                                   *)
(***************************************************************************)
\* the child slots of a node, in order
Slots(node) ==
  CASE node.type \in {"List"} -> node.elements \o node.terminator
    [] node.type = "Vector" -> node.elements
    [] node.type \in {"Sequence", "Begin"} -> node.expressions
    [] node.type = "Lambda" -> node.params \o node.rest \o <<node.body>>
    [] node.type = "FunctionDefinition" ->
         <<node.name>> \o node.params \o node.rest \o <<node.body>>
    [] node.type \in {"Definition", "Reassignment"} ->
         <<node.name, node.value>>
    [] node.type = "Conditional" ->
         <<node.test, node.consequent, node.alternate>>
    [] node.type = "Application" -> <<node.operator>> \o node.operands
    [] node.type = "Let" ->
         node.identifiers \o node.values \o <<node.body>>
    [] node.type = "Cond" ->
         node.predicates \o node.consequents \o node.catchall
    [] node.type = "Delay" -> <<node.expression>>
    [] node.type = "Import" -> <<node.source>> \o node.identifiers
    [] node.type = "Export" -> <<node.definition>>
    [] OTHER -> <<>>

RECURSIVE Occurrences(_)
\* every node reached from the nodes of a sequence, once per path to it
Occurrences(nodes) ==
  IF Len(nodes) = 0 THEN <<>>
  ELSE <<Head(nodes)>> \o Occurrences(Slots(Head(nodes)))
         \o Occurrences(Tail(nodes))

\* C18: in the result of a successful parse every node is reached from the
\* root sequence by exactly one path: no node is in two child slots, of one
\* parent or of two
C18_StrictTree ==
  pc = "returned" =>
    LET all == Occurrences(topElements)
    IN \A i, j \in 1..Len(all) : i # j => all[i] # all[j]

(***************************************************************************)
(* The Tokenizer (parser/index.ts).  A source text is a sequence of        *)
(* one-character strings; indices into it count from 0 as in the code.  A  *)
(* tokenizer t is the record of the fields source, tokens, start, current, *)
(* line and col.                                                           *)
(***************************************************************************)
\* the character String.charAt and the peek methods give past the text
NUL == "\\0"

\* this.source.charAt(i)
charAt(source, i) ==
  IF i >= 0 /\ i < Len(source) THEN source[i + 1] ELSE ""

\* this.source.substring(from, to): both indices are clamped to the text and
\* swapped when from is the larger
substring(source, from, to) ==
  LET clamp(i) == IF i < 0 THEN 0 ELSE IF i > Len(source) THEN Len(source) ELSE i
  IN IF clamp(from) <= clamp(to) THEN SubSeq(source, clamp(from) + 1, clamp(to))
     ELSE SubSeq(source, clamp(to) + 1, clamp(from))

\* new Position(line, col)
Position(line, col) == [line |-> line, col |-> col]

\* new Token(type, lexeme, literal, start, end, line, col)
TokenAt(type, lexeme, literal, start, end, line, col) ==
  [type |-> type, lexeme |-> lexeme, literal |-> literal, start |-> start,
   end |-> end, pos |-> Position(line, col),
   endPos |-> Position(line, col + Len(lexeme) - 1)]

\* const KEYWORDS
KEYWORDS ==
  { <<<<".">>, "DOT">>,
    <<<<".", ".", ".">>, "TRIPLE_DOT">>,
    <<<<"q", "u", "o", "t", "e">>, "QUOTE">>,
    <<<<"q", "u", "a", "s", "i", "q", "u", "o", "t", "e">>, "QUASIQUOTE">>,
    <<<<"u", "n", "q", "u", "o", "t", "e">>, "UNQUOTE">>,
    <<<<"u", "n", "q", "u", "o", "t", "e", "-", "s", "p", "l", "i", "c", "i",
        "n", "g">>, "UNQUOTE_SPLICING">> }

\* new Tokenizer(source)
Tokenizer(source) ==
  [source |-> source, tokens |-> <<>>, start |-> 0, current |-> 0,
   line |-> 1, col |-> 0]

\* Tokenizer.isAtEnd
tzIsAtEnd(t) == t.current >= Len(t.source)

\* Tokenizer.advance: the tokenizer after the call; the character returned is
\* the one at the old current
tzAdvance(t) == [t EXCEPT !.col = @ + 1, !.current = @ + 1]

\* Tokenizer.jump
jump(t) == [t EXCEPT !.start = t.current, !.col = @ + 1, !.current = @ + 1]

\* Tokenizer.peek, peekNext, peekPrev
tzPeek(t) == IF tzIsAtEnd(t) THEN NUL ELSE charAt(t.source, t.current)
peekNext(t) ==
  IF t.current + 1 >= Len(t.source) THEN NUL
  ELSE charAt(t.source, t.current + 1)
peekPrev(t) ==
  IF t.current - 1 < 0 THEN NUL ELSE charAt(t.source, t.current - 1)

\* Tokenizer.isDigit, isSpecialSyntax, isWhitespace, isValidSymbol
isDigit(c) == c \in {"0", "1", "2", "3", "4", "5", "6", "7", "8", "9"}
isSpecialSyntax(c) == c \in {"(", ")", "[", "]", ";", "|"}
isWhitespace(c) == c \in {" ", NUL, "\n", "\r", "\t"}
isValidSymbol(c) == ~isWhitespace(c) /\ ~isSpecialSyntax(c)

\* Tokenizer.match: whether the character matched, and the tokenizer after
match(t, expected) ==
  IF tzIsAtEnd(t) THEN [matched |-> FALSE, t |-> t]
  ELSE IF charAt(t.source, t.current) # expected
  THEN [matched |-> FALSE, t |-> t]
  ELSE [matched |-> TRUE, t |-> [t EXCEPT !.current = @ + 1]]

\* Tokenizer.addToken(type, literal = null)
addToken(t, type, literal) ==
  [t EXCEPT !.tokens =
     Append(@, TokenAt(type, substring(t.source, t.start, t.current), literal,
                       t.start, t.current, t.line, t.col))]

\* Tokenizer.checkKeyword
checkKeyword(t) ==
  LET raw == substring(t.source, t.start, t.current)
      text == IF Len(raw) > 0 /\ raw[1] = "|"
              THEN substring(t.source, t.start + 1, t.current - 1)
              ELSE raw
  IN IF \E kw \in KEYWORDS : kw[1] = text
     THEN (CHOOSE kw \in KEYWORDS : kw[1] = text)[2]
     ELSE "SYMBOL"

\* the outcome of a tokenizer method: the tokenizer it leaves and the error
\* it threw, if any
NoScanError == [kind |-> "none", line |-> 0, col |-> 0]
ScanReturn(t) == [t |-> t, err |-> NoScanError]
ScanThrow(t, kind) ==
  [t |-> t, err |-> [kind |-> kind, line |-> t.line, col |-> t.col]]

\* `if (this.peek() === "\n") { this.line++; this.col = 0; }`
countNewline(t) ==
  IF tzPeek(t) = "\n" THEN [t EXCEPT !.line = @ + 1, !.col = 0] ELSE t

RECURSIVE skipLine(_)
\* `while (this.peek() != "\n" && !this.isAtEnd()) this.advance();`
skipLine(t) ==
  IF tzPeek(t) # "\n" /\ ~tzIsAtEnd(t) THEN skipLine(tzAdvance(t)) ELSE t

RECURSIVE commentLoop(_)
\* the loop of Tokenizer.comment
commentLoop(t) ==
  IF ~(tzPeek(t) = "|" /\ peekNext(t) = "#") /\ ~tzIsAtEnd(t)
  THEN commentLoop(tzAdvance(countNewline(t)))
  ELSE t

\* Tokenizer.comment
comment(t) ==
  LET Closed(u) ==
        IF tzIsAtEnd(u) THEN ScanThrow(u, "UnexpectedEOF")
        ELSE ScanReturn(jump(jump(u)))
  IN Closed(commentLoop(t))

RECURSIVE symbolLoop(_)
\* `while (this.isValidSymbol(this.peek())) this.advance();`
symbolLoop(t) ==
  IF isValidSymbol(tzPeek(t)) THEN symbolLoop(tzAdvance(t)) ELSE t

\* Tokenizer.symbolToken
symbolToken(t) ==
  LET Add(u) == addToken(u, checkKeyword(u), "null")
  IN ScanReturn(Add(symbolLoop(t)))

RECURSIVE readUntil(_, _)
\* the loop of symbolTokenLoose and of stringToken: up to the closing
\* character or the end of the text
readUntil(t, closing) ==
  IF tzPeek(t) # closing /\ ~tzIsAtEnd(t)
  THEN readUntil(tzAdvance(countNewline(t)), closing)
  ELSE t

\* Tokenizer.symbolTokenLoose
symbolTokenLoose(t) ==
  LET Closed(u) ==
        IF tzIsAtEnd(u) THEN ScanThrow(u, "UnexpectedEOF")
        ELSE ScanReturn(jump(addToken(u, checkKeyword(u), "null")))
  IN Closed(readUntil(jump(t), "|"))

\* Tokenizer.stringToken
stringToken(t) ==
  LET Add(v) ==
        addToken(v, "STRING", substring(v.source, v.start + 1, v.current - 1))
      Closed(u) ==
        IF tzIsAtEnd(u) THEN ScanThrow(u, "UnexpectedEOF")
        ELSE ScanReturn(Add(tzAdvance(u)))
  IN Closed(readUntil(t, "\""))

\* Tokenizer.booleanToken
booleanToken(t) == addToken(t, "BOOLEAN", peekPrev(t) = "t")

RECURSIVE digitsValue(_)
\* the number a sequence of digits writes
digitsValue(digits) ==
  IF Len(digits) = 0 THEN 0
  ELSE 10 * digitsValue(SubSeq(digits, 1, Len(digits) - 1))
         + (CHOOSE d \in 0..9 :
              <<"0", "1", "2", "3", "4", "5", "6", "7", "8", "9">>[d + 1]
                = digits[Len(digits)])

\* parseFloat on a lexeme made of an optional -, digits and at most one dot:
\* the sign, the integer part, and the digits and the value of the fraction
parseFloat(lexeme) ==
  LET negative == Len(lexeme) > 0 /\ lexeme[1] = "-"
      unsigned == IF negative THEN Tail(lexeme) ELSE lexeme
      dots == {k \in 1..Len(unsigned) : unsigned[k] = "."}
      dot == IF dots = {} THEN Len(unsigned) + 1 ELSE CHOOSE k \in dots : TRUE
      fraction == SubSeq(unsigned, dot + 1, Len(unsigned))
  IN [negative |-> negative,
      integer |-> digitsValue(SubSeq(unsigned, 1, dot - 1)),
      places |-> IF digitsValue(fraction) = 0 THEN 0 ELSE Len(fraction),
      fraction |-> digitsValue(fraction)]

RECURSIVE numberLoop(_, _, _)
\* the loop of Tokenizer.symbolNumberToken: the tokenizer after it and
\* whether the lexeme still reads as a number
numberLoop(t, validNumber, hasDot) ==
  IF ~isValidSymbol(tzPeek(t)) THEN [t |-> t, validNumber |-> validNumber]
  ELSE IF isDigit(tzPeek(t)) THEN numberLoop(tzAdvance(t), validNumber, hasDot)
  ELSE IF tzPeek(t) # "." THEN numberLoop(tzAdvance(t), FALSE, hasDot)
  ELSE IF hasDot THEN numberLoop(tzAdvance(t), FALSE, hasDot)
  ELSE IF isDigit(peekNext(t)) \/ isWhitespace(peekNext(t))
  THEN numberLoop(tzAdvance(t), validNumber, TRUE)
  ELSE numberLoop(tzAdvance(t), FALSE, hasDot)

\* symbolNumberToken without the switch on the lexemes ., - and -.
symbolNumberToken_NoSwitch(t) ==
  LET Finish(r) ==
        LET lexeme == substring(r.t.source, r.t.start, r.t.current)
        IN IF r.validNumber
           THEN addToken(r.t, "NUMBER", parseFloat(lexeme))
           ELSE addToken(r.t, checkKeyword(r.t), "null")
  IN ScanReturn(Finish(numberLoop(t, TRUE, peekPrev(t) = ".")))

\* Tokenizer.symbolNumberToken
symbolNumberToken(t) ==
  LET Finish(r) ==
        LET lexeme == substring(r.t.source, r.t.start, r.t.current)
        IN IF r.validNumber /\ lexeme \notin {<<".">>, <<"-">>, <<"-", ".">>}
           THEN addToken(r.t, "NUMBER", parseFloat(lexeme))
           ELSE addToken(r.t, checkKeyword(r.t), "null")
  IN ScanReturn(Finish(numberLoop(t, TRUE, peekPrev(t) = ".")))

\* Tokenizer.scanToken, after `const c = this.advance()`; the character ^
\* stands for the backtick
scanSwitch(c, t) ==
  CASE c = "(" -> ScanReturn(addToken(t, "LEFT_PAREN", "null"))
    [] c = ")" -> ScanReturn(addToken(t, "RIGHT_PAREN", "null"))
    [] c = "[" -> ScanReturn(addToken(t, "LEFT_BRACKET", "null"))
    [] c = "]" -> ScanReturn(addToken(t, "RIGHT_BRACKET", "null"))
    [] c = "'" -> ScanReturn(addToken(t, "APOSTROPHE", "null"))
    [] c = "^" -> ScanReturn(addToken(t, "BACKTICK", "null"))
    [] c = "," ->
         IF match(t, "@").matched
         THEN ScanReturn(addToken(match(t, "@").t, "COMMA_AT", "null"))
         ELSE ScanReturn(addToken(t, "COMMA", "null"))
    [] c = "#" ->
         IF match(t, "t").matched
         THEN ScanReturn(booleanToken(match(t, "t").t))
         ELSE IF match(t, "f").matched
         THEN ScanReturn(booleanToken(match(t, "f").t))
         ELSE IF match(t, "|").matched THEN comment(match(t, "|").t)
         ELSE ScanReturn(addToken(t, "HASH", "null"))
    [] c = ";" -> ScanReturn(skipLine(t))
    [] c \in {" ", "\r", "\t"} -> ScanReturn(t)
    [] c = "\n" -> ScanReturn([t EXCEPT !.line = @ + 1, !.col = 0])
    [] c = "\"" -> stringToken(t)
    [] c = "|" -> symbolTokenLoose(t)
    [] OTHER ->
         IF isDigit(c) \/ c = "-" \/ c = "." THEN symbolNumberToken(t)
         ELSE IF isValidSymbol(c) THEN symbolToken(t)
         ELSE ScanThrow(t, "UnexpectedCharacter")

\* Tokenizer.scanToken
scanToken(t) == scanSwitch(charAt(t.source, t.current), tzAdvance(t))

\* the EOF token scanTokens pushes after its loop
pushEOF(t) ==
  [t EXCEPT !.tokens =
     Append(@, TokenAt("EOF", <<>>, "null", t.start, t.current, t.line, t.col))]

(***************************************************************************)
(* The Tokenizer as a state machine: scanTokens() runs scanToken() until   *)
(* the text is used up and then pushes the EOF token.                      *)
(***************************************************************************)
MaxChars == 3

\* the characters texts are made of; ^ stands for the backtick
Chars == {"(", ")", ",", "@", "#", "t", "|", ";", " ", "\n", "\"", "a", "1",
          ".", "-"}

RECURSIVE TextsOfLen(_)
TextsOfLen(n) ==
  IF n = 0 THEN {<<>>}
  ELSE {Append(text, c) : text \in TextsOfLen(n - 1), c \in Chars}

\* longer texts, among them the text of src/tests/test0.ts
ScanScenarios ==
  { <<"(", "a", "b", " ", "1", ".", ")">>,
    <<"(", "f", " ", ".", "5", " ", "-", ".", "5", ")">>,
    <<",", "@", "a", "b", " ", "a">>,
    <<"#", "t", " ", "#", "f", " ", "a">>,
    <<"|", "a", " ", "b", "|", " ", "a">>,
    <<"|", "\n", "a", "|">>,
    <<"|", "a", "\n", "b", "|", "a">>,
    <<"|", "a", "b">>,
    <<"-", " ", "-", ".", " ", ".", " ", ".", ".", ".", " ", "1", "-">>,
    <<"\"", "a", "\n", "b", "\"", " ", "a">>,
    <<"#", "|", "a", "\n", "|", "#", "a", "b">>,
    <<";", "a", "\n", "a", "b", "\n", " ", "a">>,
    <<"[", "'", "^", "]", "\r", "\t", "#">>,
    <<"u", "n", "q", "u", "o", "t", "e", " ", ".", ".", ".">>,
    <<" ", "(", " ", "1", ".", " ", "1", "1", ".", " ", ".", " ", ".", ".",
      " ", ".", ".", ".", " ", ".", " ", ".", "1", " ", ".", "a", " ", ".",
      "h", " ", ".", "\n", " ", ".", "1", "\n", " ", ".", "a", "\n">> }

Texts == UNION {TextsOfLen(n) : n \in 0..MaxChars} \cup ScanScenarios

\* `new Tokenizer(source)` and the call of scanTokens()
InitScan ==
  /\ \E source \in Texts :
       tz = [t |-> Tokenizer(source), pc |-> "scan", err |-> NoScanError]
  /\ entry = "Tokenizer"
  /\ chapterArg = <<>>
  /\ tokens = <<>>
  /\ chapter = Infinity
  /\ current = 0
  /\ quoteMode = "NONE"
  /\ topElements = <<>>
  /\ currentElement = <<>>
  /\ produced = [tokens |-> <<>>, datum |-> <<>>]
  /\ pc = "idle"
  /\ error = NoErr
  /\ calls = <<>>

\* scanTokens(): one turn of the loop, scanToken() returns
ScanToken ==
  /\ tz.pc = "scan"
  /\ ~tzIsAtEnd(tz.t)
  /\ \E r \in {scanToken([tz.t EXCEPT !.start = tz.t.current])} :
       /\ r.err = NoScanError
       /\ tz' = [tz EXCEPT !.t = r.t]
  /\ UNCHANGED <<tokens, chapter, current, quoteMode, topElements,
                 currentElement, produced, pc, error, calls, entry, chapterArg>>

\* scanTokens(): one turn of the loop, scanToken() throws
ScanTokenThrows ==
  /\ tz.pc = "scan"
  /\ ~tzIsAtEnd(tz.t)
  /\ \E r \in {scanToken([tz.t EXCEPT !.start = tz.t.current])} :
       /\ r.err # NoScanError
       /\ tz' = [t |-> r.t, pc |-> "thrown", err |-> r.err]
  /\ UNCHANGED <<tokens, chapter, current, quoteMode, topElements,
                 currentElement, produced, pc, error, calls, entry, chapterArg>>

\* scanTokens(): the loop is over, the EOF token is pushed and the tokens
\* are returned
ScanTokensReturns ==
  /\ tz.pc = "scan"
  /\ tzIsAtEnd(tz.t)
  /\ tz' = [tz EXCEPT !.t = pushEOF(tz.t), !.pc = "done"]
  /\ UNCHANGED <<tokens, chapter, current, quoteMode, topElements,
                 currentElement, produced, pc, error, calls, entry, chapterArg>>

NextScan ==
  \/ ScanToken
  \/ ScanTokenThrows
  \/ ScanTokensReturns

SpecScan == InitScan /\ [][NextScan]_vars

(***************************************************************************)
(* Claims about the Tokenizer.                                             *)
(***************************************************************************)
\* the (line, column) of the character at index i of the text, columns
\* counted from base
PositionOf(source, i, base) ==
  LET breaks == {k \in 0..(i - 1) : charAt(source, k) = "\n"}
      lineStart == IF breaks = {} THEN 0
                   ELSE 1 + CHOOSE k \in breaks : \A m \in breaks : m <= k
  IN Position(1 + Cardinality(breaks), base + (i - lineStart))

\* the tokens the Tokenizer has emitted, the EOF token left out
Emitted == {k \in 1..Len(tz.t.tokens) : tz.t.tokens[k].type # "EOF"}

\* C19: every non-EOF token the scanner has emitted records as its start
\* position the line and column of the first character of its lexeme and as
\* its end position the line and column of the last character, columns
\* counted from 0 or from 1 throughout.
C19_TokenPositionsExact ==
  tz.pc # "none" =>
    \E base \in {0, 1} :
      \A k \in Emitted :
        LET token == tz.t.tokens[k]
        IN token.end > token.start =>
             /\ token.pos = PositionOf(tz.t.source, token.start, base)
             /\ token.endPos = PositionOf(tz.t.source, token.end - 1, base)

\* digits followed by one trailing dot, or a dot followed by digits,
\* optionally preceded by -
IsSicpNumber(lexeme) ==
  LET unsigned == IF Len(lexeme) > 0 /\ lexeme[1] = "-" THEN Tail(lexeme)
                  ELSE lexeme
      n == Len(unsigned)
  IN /\ n >= 2
     /\ \/ unsigned[n] = "." /\ \A k \in 1..(n - 1) : isDigit(unsigned[k])
        \/ unsigned[1] = "." /\ \A k \in 2..n : isDigit(unsigned[k])

\* the lexemes of SICP-style numbers in the text: preceded only by blanks and
\* opening parentheses, ended by whitespace, the end of the text or a
\* delimiter character
SicpLexemes ==
  {span \in (0..Len(tz.t.source)) \X (0..Len(tz.t.source)) :
     /\ span[1] < span[2]
     /\ IsSicpNumber(substring(tz.t.source, span[1], span[2]))
     /\ \A k \in 0..(span[1] - 1) : charAt(tz.t.source, k) \in {" ", "\n", "("}
     /\ \/ span[2] = Len(tz.t.source)
        \/ isWhitespace(charAt(tz.t.source, span[2]))
        \/ charAt(tz.t.source, span[2]) \in {")", "]", ";", "|"}}

\* C20: when scanTokens() has returned, every SICP-style number lexeme of
\* the text was scanned as a single NUMBER token, whatever ends it.
C20_SicpNumbers ==
  tz.pc = "done" =>
    \A span \in SicpLexemes :
      \E k \in Emitted :
        /\ tz.t.tokens[k].type = "NUMBER"
        /\ tz.t.tokens[k].start = span[1]
        /\ tz.t.tokens[k].end = span[2]

\* the text opens a pipe-delimited symbol
OpensPipe == Len(tz.t.source) > 0 /\ tz.t.source[1] = "|"
\* the indices of the pipes after the opening one
LaterPipes == {k \in 1..(Len(tz.t.source) - 1) : charAt(tz.t.source, k) = "|"}
\* the index of the closing pipe
ClosingPipe == CHOOSE k \in LaterPipes : \A m \in LaterPipes : k <= m
\* the text between the pipes
PipeText == substring(tz.t.source, 1, ClosingPipe)
\* the number of line breaks in a text
LineBreaks(text) == Cardinality({k \in 1..Len(text) : text[k] = "\n"})

\* C21: once the scan of a text |s|..., s without a pipe, has begun, the
\* first token has the lexeme s verbatim and is the only token of that
\* stretch, the scan has resumed right after the closing pipe with the
\* line counter advanced by the line breaks of s, and no error was thrown
\* for the symbol; without a closing pipe the scan has thrown the
\* unterminated-token error.
C21_PipeSymbols ==
  (tz.pc # "none" /\ OpensPipe /\ tz.t.current > 0) =>
    IF LaterPipes = {}
    THEN tz.pc = "thrown" /\ tz.err.kind = "UnexpectedEOF"
    ELSE /\ Len(tz.t.tokens) >= 1
         /\ tz.t.tokens[1].lexeme = PipeText
         /\ \A k \in 2..Len(tz.t.tokens) : tz.t.tokens[k].start > ClosingPipe
         /\ tz.t.current >= ClosingPipe + 1
         /\ tz.t.current = ClosingPipe + 1 =>
              tz.t.line = 1 + LineBreaks(PipeText)

(***************************************************************************)
(* Claims about the shapes of the special forms.                           *)
(***************************************************************************)
\* the call is on a parenthesized form, parsed in mode NONE, whose first
\* element is a token of one of the types
IsLiveForm(c, types) ==
  /\ c.modeIn = "NONE"
  /\ isGroup(c.datum)
  /\ isParenthesized(c.datum)
  /\ length(c.datum) >= 1
  /\ isToken(unwrap(c.datum)[1])
  /\ unwrap(c.datum)[1].type \in types

\* the keywords with an element count to keep; the least and the greatest
\* count of each (Infinity: no greatest), and the least chapter that admits it
ArityForms ==
  {"LAMBDA", "IF", "SET", "DELAY", "BEGIN", "IMPORT", "JS_IMPORT", "EXPORT",
   "JS_EXPORT"}
LeastCount(type) ==
  CASE type \in {"LAMBDA", "IF", "SET", "IMPORT", "JS_IMPORT"} -> 3
    [] type \in {"DELAY", "BEGIN", "EXPORT", "JS_EXPORT"} -> 2
GreatestCount(type) ==
  CASE type \in {"LAMBDA", "BEGIN"} -> Infinity
    [] type = "IF" -> 4
    [] type \in {"SET", "IMPORT", "JS_IMPORT"} -> 3
    [] type \in {"DELAY", "EXPORT", "JS_EXPORT"} -> 2
LeastChapter(type) ==
  IF type \in {"SET", "DELAY", "BEGIN"} THEN MUTABLE_CHAPTER ELSE BASIC_CHAPTER

\* the call failed with ExpectedForm at the start of its own datum: the
\* form itself was rejected, not one of its parts
RejectedAsForm(c) ==
  ~c.ok /\ c.err.kind = "ExpectedForm" /\ c.err.pos = location(c.datum)[1]

\* C22: a lambda, if, set!, delay, begin, import or export form parsed in
\* mode NONE under a ceiling that admits its keyword fails with ExpectedForm
\* when its element count (keyword counted, delimiters not) is outside the
\* range of the keyword, and is not rejected as a form when the count is
\* inside the range.
C22_FixedArity ==
  \A i \in PCalls :
    LET c == calls[i]
    IN IsLiveForm(c, ArityForms) =>
         LET type == unwrap(c.datum)[1].type
             count == length(c.datum)
         IN chapter >= LeastChapter(type) =>
              IF count < LeastCount(type) \/ count > GreatestCount(type)
              THEN ~c.ok /\ c.err.kind = "ExpectedForm"
              ELSE ~RejectedAsForm(c)

\* C22 witness: a set! form of four elements, under a ceiling that admits
\* set!, was rejected with ExpectedForm
C22_Witness ==
  /\ chapter >= MUTABLE_CHAPTER
  /\ \E i \in PCalls :
       /\ IsLiveForm(calls[i], {"SET"})
       /\ length(calls[i].datum) = 4
       /\ ~calls[i].ok
       /\ calls[i].err.kind = "ExpectedForm"

\* the clauses of a cond form, and whether a clause starts with else
ClausesOf(datum) == Tail(unwrap(datum))
StartsWithElse(clause) ==
  /\ length(clause) >= 1
  /\ isToken(unwrap(clause)[1])
  /\ unwrap(clause)[1].type = "ELSE"

\* the clause at index k of the clauses keeps the rule of its place: a group,
\* before the last with a test that is not else, the last with a test and
\* at least one more element
ClauseOK(clauses, k) ==
  /\ isGroup(clauses[k])
  /\ IF k < Len(clauses)
     THEN length(clauses[k]) >= 1 /\ ~StartsWithElse(clauses[k])
     ELSE length(clauses[k]) >= 2
CondShapeOK(datum) ==
  /\ Len(ClausesOf(datum)) >= 1
  /\ \A k \in 1..Len(ClausesOf(datum)) : ClauseOK(ClausesOf(datum), k)

\* the value of a clause with this test node and these body expressions
ClauseValue(testNode, body, value) ==
  /\ Len(body) = 0 => value = testNode
  /\ Len(body) = 1 => value = CallOn(body[1]).node
  /\ Len(body) >= 2 =>
       value.type = "Sequence" /\ value.expressions = NodesOf(body)

\* the Cond node of an accepted cond form: as many tests as consequents, an
\* else-value exactly when the last clause starts with else, and for each
\* clause its test and the value of its body
CondNodeOK(c) ==
  LET clauses == ClausesOf(c.datum)
      n == Len(clauses)
      last == clauses[n]
  IN /\ c.node.type = "Cond"
     /\ Len(c.node.predicates) = Len(c.node.consequents)
     /\ c.node.catchall # <<>> <=> StartsWithElse(last)
     /\ Len(c.node.predicates) = IF StartsWithElse(last) THEN n - 1 ELSE n
     /\ \A k \in 1..Len(c.node.predicates) :
          /\ c.node.predicates[k] = CallOn(unwrap(clauses[k])[1]).node
          /\ ClauseValue(c.node.predicates[k], Tail(unwrap(clauses[k])),
                         c.node.consequents[k])
     /\ StartsWithElse(last) =>
          ClauseValue(<<>>, Tail(unwrap(last)), c.node.catchall[1])

\* a cond form accepted only in the right shape, with the right node
CondAccepted(c) == c.ok => CondShapeOK(c.datum) /\ CondNodeOK(c)

FirstBadClause(datum) ==
  IF Len(ClausesOf(datum)) = 0 THEN 1
  ELSE CHOOSE k \in 1..Len(ClausesOf(datum)) :
         /\ ~ClauseOK(ClausesOf(datum), k)
         /\ \A m \in 1..(k - 1) : ClauseOK(ClausesOf(datum), m)

\* the call failed with the error of the parse of an expression of a clause
\* before the first one that breaks its rule
EarlierClauseFailed(c) ==
  \E k \in 1..(FirstBadClause(c.datum) - 1) :
    \E m \in 1..Len(unwrap(ClausesOf(c.datum)[k])) :
      LET e == unwrap(ClausesOf(c.datum)[k])[m]
      IN Parsed(e) /\ ~CallOn(e).ok /\ CallOn(e).err = c.err

IsOpen(token) == token.type \in {"LEFT_PAREN", "LEFT_BRACKET"}

\* the source starts with a group without inner groups, markers or datum
\* comments, closed by the token at index j
FlatGroup(j) ==
  /\ 1 < j
  /\ j < Len(tokens)
  /\ IsOpen(tokens[1])
  /\ IsClose(tokens[j])
  /\ \A m \in 2..(j - 1) :
       /\ ~IsOpen(tokens[m])
       /\ ~IsClose(tokens[m])
       /\ ~IsMarker(tokens[m])
       /\ tokens[m].type # "EOF"

\* the tokens with every square delimiter replaced by the round one
Rounded(toks) ==
  [m \in 1..Len(toks) |->
     IF toks[m].type = "LEFT_BRACKET"
     THEN [toks[m] EXCEPT !.type = "LEFT_PAREN", !.lexeme = "("]
     ELSE IF toks[m].type = "RIGHT_BRACKET"
     THEN [toks[m] EXCEPT !.type = "RIGHT_PAREN", !.lexeme = ")"]
     ELSE toks[m]]

\* C24: once parse has grouped a first datum opened with ( and closed with ],
\* or opened with [ and closed with ), it has failed with UnexpectedForm; a
\* first datum in matching delimiters is accepted, and in square delimiters
\* it has the elements the same group has in round ones.
C24_MismatchedClose ==
  \A j \in 1..Len(tokens) :
    FlatGroup(j) =>
      IF matchingParentheses(tokens[1], tokens[j])
      THEN current = j =>
             /\ produced.datum # <<>>
             /\ grouping(Rounded(tokens), 0, <<>>).err = NoErr
             /\ unwrap(produced.datum[1])
                  = unwrap(grouping(Rounded(tokens), 0, <<>>).group[1])
      ELSE current > 0 => pc = "thrown" /\ error.kind = "UnexpectedForm"

RECURSIVE GroupsIn(_)
\* the groups of a datum: itself when it is a group, and the groups inside
GroupsIn(datum) ==
  IF isToken(datum) THEN {}
  ELSE {datum} \cup
       UNION {GroupsIn(datum.elements[k]) : k \in 1..Len(datum.elements)}

\* the first and the last element of the group are an open delimiter and
\* the close delimiter that matches it
Delimited(g) ==
  /\ Len(g.elements) >= 2
  /\ isToken(g.elements[1])
  /\ isToken(g.elements[Len(g.elements)])
  /\ matchingParentheses(g.elements[1], g.elements[Len(g.elements)])

\* C25: every group of the datum the grouper has returned is non-empty, is
\* parenthesized exactly when its first and last elements are a matching
\* pair of delimiters, and when it is not parenthesized has exactly two
\* elements, an affector token and its target.
C25_GroupInvariants ==
  produced.datum # <<>> =>
    \A g \in GroupsIn(produced.datum[1]) :
      /\ Len(g.elements) >= 1
      /\ isParenthesized(g) <=> Delimited(g)
      /\ ~isParenthesized(g) =>
           /\ Len(g.elements) = 2
           /\ isToken(g.elements[1])
           /\ isShortAffector(g.elements[1])

\* the datum is a token that is not an identifier
NotIdentifier(datum) == isToken(datum) /\ datum.type # "IDENTIFIER"

\* the datum is a parenthesized list of tokens without a dot, one of which
\* is not an identifier
ListWithNonIdentifier(datum) ==
  /\ isGroup(datum)
  /\ isParenthesized(datum)
  /\ \A k \in 1..length(datum) :
       isToken(unwrap(datum)[k]) /\ unwrap(datum)[k].type # "DOT"
  /\ \E k \in 1..length(datum) : NotIdentifier(unwrap(datum)[k])

\* the datum is a list of bindings whose first binding is a pair with a name
\* that is not an identifier
FirstBindingNonIdentifier(datum) ==
  /\ isGroup(datum)
  /\ isParenthesized(datum)
  /\ length(datum) >= 1
  /\ isGroup(unwrap(datum)[1])
  /\ isParenthesized(unwrap(datum)[1])
  /\ length(unwrap(datum)[1]) = 2
  /\ NotIdentifier(unwrap(unwrap(datum)[1])[1])

\* the call is on a form, of the right element count, with something other
\* than an identifier in an identifier slot
NonIdentifierInSlot(c) ==
  \/ /\ IsLiveForm(c, {"LAMBDA", "DEFINE"})
     /\ length(c.datum) >= 3
     /\ \/ NotIdentifier(unwrap(c.datum)[2])
        \/ ListWithNonIdentifier(unwrap(c.datum)[2])
  \/ /\ IsLiveForm(c, {"SET"})
     /\ length(c.datum) = 3
     /\ NotIdentifier(unwrap(c.datum)[2])
  \/ /\ IsLiveForm(c, {"LET"})
     /\ length(c.datum) >= 3
     /\ FirstBindingNonIdentifier(unwrap(c.datum)[2])
  \/ /\ IsLiveForm(c, {"IMPORT", "JS_IMPORT"})
     /\ length(c.datum) = 3
     /\ isToken(unwrap(c.datum)[2])
     /\ unwrap(c.datum)[2].type = "STRING"
     /\ ListWithNonIdentifier(unwrap(c.datum)[3])

\* C26: a lambda, define, set!, let or import form parsed in mode NONE under
\* a ceiling that admits it, with a token that is not an identifier as a
\* formal or rest name, as the defined name or one of its formals, as the
\* target, as a binding name or as an imported name, fails with
\* UnexpectedForm.
C26_IdentifierSlots ==
  \A i \in PCalls :
    ( /\ NonIdentifierInSlot(calls[i])
      /\ chapter >= LeastChapter(unwrap(calls[i].datum)[1].type) ) =>
      ~calls[i].ok /\ calls[i].err.kind = "UnexpectedForm"

\* the kind the keyword table gives a lexeme: its entry, or SYMBOL
KeywordKind(lexeme) ==
  IF \E kw \in KEYWORDS : kw[1] = lexeme
  THEN (CHOOSE kw \in KEYWORDS : kw[1] = lexeme)[2]
  ELSE "SYMBOL"

\* the emitted tokens of a lexeme
TokensOf(lexeme) == {k \in Emitted : tz.t.tokens[k].lexeme = lexeme}

\* C27: every NUMBER token the scanner has emitted has a digit in its
\* lexeme; the lexemes ., - and -. are not NUMBER tokens and the lexeme . is
\* the DOT token; every token whose lexeme starts with a digit, - or . and
\* that is not a NUMBER has the kind the keyword table gives its lexeme.
C27_NumbersHaveDigits ==
  tz.pc # "none" =>
    \A k \in Emitted :
      LET token == tz.t.tokens[k]
      IN /\ token.type = "NUMBER" =>
              \E m \in 1..Len(token.lexeme) : isDigit(token.lexeme[m])
         /\ token.lexeme \in {<<".">>, <<"-">>, <<"-", ".">>} =>
              token.type # "NUMBER"
         /\ token.lexeme = <<".">> => token.type = "DOT"
         /\ ( /\ Len(token.lexeme) > 0
              /\ isDigit(token.lexeme[1]) \/ token.lexeme[1] \in {"-", "."}
              /\ token.type # "NUMBER" ) =>
              token.type = KeywordKind(token.lexeme)

\* C27 witness: the scan of a text has emitted the lexeme . as DOT, the
\* lexeme ... as the rest marker and the lexemes - and -. as symbols
C27_Witness ==
  /\ tz.pc = "done"
  /\ \E k \in TokensOf(<<".">>) : tz.t.tokens[k].type = "DOT"
  /\ \E k \in TokensOf(<<".", ".", ".">>) : tz.t.tokens[k].type = "TRIPLE_DOT"
  /\ \E k \in TokensOf(<<"-">>) : tz.t.tokens[k].type = "SYMBOL"
  /\ \E k \in TokensOf(<<"-", ".">>) : tz.t.tokens[k].type = "SYMBOL"

IsComment(token) == token.type = "HASH_SEMICOLON"

RECURSIVE DatumEnd(_)
RECURSIVE ListEnd(_)
\* reading the source by its grammar: the index of the last token of the
\* next complete datum looked for from index i on, datum comments before it
\* passed over
DatumEnd(i) ==
  IF i >= Len(tokens) THEN Len(tokens)
  ELSE IF IsComment(tokens[i]) THEN DatumEnd(DatumEnd(i + 1) + 1)
  ELSE IF IsOpen(tokens[i]) THEN ListEnd(i + 1)
  ELSE IF isShortAffector(tokens[i]) THEN DatumEnd(i + 1)
  ELSE i
\* the index of the close delimiter of the list whose elements start at j
ListEnd(j) ==
  IF j >= Len(tokens) THEN Len(tokens)
  ELSE IF IsClose(tokens[j]) THEN j
  ELSE IF IsComment(tokens[j]) THEN ListEnd(DatumEnd(j + 1) + 1)
  ELSE ListEnd(DatumEnd(j) + 1)

RECURSIVE Visible(_, _)
\* the tokens from index i to index to, without the datum comment markers
\* and the data they remove
Visible(i, to) ==
  IF i > to THEN <<>>
  ELSE IF IsComment(tokens[i]) THEN Visible(DatumEnd(i + 1) + 1, to)
  ELSE <<tokens[i]>> \o Visible(i + 1, to)

RECURSIVE CountData(_)
\* the number of top-level data from index i on that no datum comment
\* removes
CountData(i) ==
  IF i >= Len(tokens) \/ tokens[i].type = "EOF" THEN 0
  ELSE IF IsComment(tokens[i]) THEN CountData(DatumEnd(i + 1) + 1)
  ELSE 1 + CountData(DatumEnd(i) + 1)

\* the tokens of what a grouping call returned
TokensOfResult(group) == IF group = <<>> THEN <<>> ELSE Flatten(group[1])

\* C28: what a grouping call returns holds the tokens it consumed without
\* the datum comment markers and without the complete datum each marker
\* removes, nested markers removing one datum each; an affector followed by
\* a datum comment forms the two-element group of the affector and the first
\* datum after the commented one; and the top-level result has one node for
\* each datum that no datum comment removes.
C28_DatumComments ==
  /\ \A k \in 0..(Len(tokens) - 1) :
       LET g == grouping(tokens, k, <<>>)
       IN g.err = NoErr =>
            /\ TokensOfResult(g.group) = Visible(k + 1, g.cur)
            /\ ( /\ isShortAffector(tokens[k + 1])
                 /\ IsComment(tokens[k + 2])
                 /\ ~IsComment(tokens[DatumEnd(k + 3) + 1]) ) =>
                 g.group[1].elements
                   = <<tokens[k + 1],
                       grouping(tokens, DatumEnd(k + 3), <<>>).group[1]>>
  /\ produced.datum # <<>> =>
       \A m \in 1..Len(Flatten(produced.datum[1])) :
         ~IsComment(Flatten(produced.datum[1])[m])
  /\ pc = "returned" => Len(topElements) = CountData(1)

\* C28 witness: parse has returned on a source with two datum comment
\* markers in a row and with an affector right before a datum comment
C28_Witness ==
  /\ pc = "returned"
  /\ Len(topElements) >= 1
  /\ \E k \in 1..(Len(tokens) - 1) :
       IsComment(tokens[k]) /\ IsComment(tokens[k + 1])
  /\ \E k \in 1..(Len(tokens) - 1) :
       isShortAffector(tokens[k]) /\ IsComment(tokens[k + 1])

\* every grouping call on the source that returns has moved the cursor
\* forward; a call without an opener stops after one datum, or after the
\* datum a datum comment removes; a call with an opener stops at the first
\* close delimiter of its own nesting level
GroupingStops ==
  \A k \in 0..(Len(tokens) - 1) :
    /\ LET g == grouping(tokens, k, <<>>)
       IN g.err = NoErr =>
            /\ g.cur > k
            /\ Len(g.group) <= 1
            /\ g.cur = IF IsComment(tokens[k + 1]) THEN DatumEnd(k + 2)
                       ELSE DatumEnd(k + 1)
    /\ (k >= 1 /\ IsOpen(tokens[k])) =>
         LET g == grouping(tokens, k, <<tokens[k]>>)
         IN g.err = NoErr =>
              /\ g.cur > k
              /\ IsClose(tokens[g.cur])
              /\ g.cur = ListEnd(k + 1)

\* C29: parse() on a token sequence that ends with EOF terminates, by
\* returning or by throwing, and every turn of its loop moves the cursor
\* forward; every grouping call that returns has advanced the cursor by at
\* least one token, without an opener it stops after one element, with an
\* opener at the first close delimiter of its own nesting level.
C29_Termination ==
  /\ <>(pc \in {"returned", "thrown"})
  /\ [][pc' = "parse" => current' > current]_vars
  /\ []GroupingStops

\* C29 witness: parse has returned after several turns of its loop, one of
\* them on a parenthesized list
C29_Witness ==
  /\ pc = "returned"
  /\ Len(topElements) >= 2
  /\ \E k \in 1..(Len(tokens) - 1) :
       IsOpen(tokens[k]) /\ IsClose(tokens[ListEnd(k + 1)])

(***************************************************************************)
(* C30: the ceiling and the outcome of a parse.                            *)
(***************************************************************************)
\* the ceilings a parser can be constructed with
Ceilings == Chapters \cup {Infinity}

RECURSIVE ParseUnder(_, _, _, _)
\* the outcome of parse() on the tokens of the state under ceiling c: the
\* loop of parse() from cursor cur, with the nodes pushed so far
ParseUnder(cur, mode, nodes, c) ==
  IF cur >= Len(tokens) \/ tokens[cur + 1].type = "EOF"
  THEN [ok |-> TRUE, nodes |-> nodes, err |-> NoErr]
  ELSE LET Grouped(g) ==
             IF g.err # NoErr
             THEN [ok |-> FALSE, nodes |-> <<>>, err |-> g.err]
             ELSE IF g.group = <<>> THEN ParseUnder(g.cur, mode, nodes, c)
             ELSE LET Pushed(r) ==
                        IF ~r.ok
                        THEN [ok |-> FALSE, nodes |-> <<>>, err |-> r.err]
                        ELSE ParseUnder(g.cur, r.mode, Append(nodes, r.node), c)
                  IN Once(Pushed, parseExpression(g.group[1], mode, c))
       IN Once(Grouped, grouping(tokens, cur, <<>>))

\* C30: the ceiling influences the outcome of a parse only through
\* DisallowedToken.  When parse() under the ceiling of the state has returned,
\* the parse of the same tokens under every ceiling at least as high succeeds
\* with the same nodes; when it has thrown an error other than
\* DisallowedToken, the parse under every ceiling at least as high fails with
\* the same kind of error at the same position.
C30_ChapterMonotone ==
  \A c2 \in {c \in Ceilings : c >= chapter} :
    LET higher == ParseUnder(0, "NONE", <<>>, c2)
    IN /\ pc = "returned" =>
            /\ higher.ok
            /\ higher.nodes = topElements
       /\ (pc = "thrown" /\ error.kind # "DisallowedToken") =>
            /\ ~higher.ok
            /\ higher.err.kind = error.kind
            /\ higher.err.pos = error.pos

\* C30 witness: parse() has returned under a ceiling that is neither the
\* lowest nor the highest, on a source that the lowest ceiling rejects with
\* DisallowedToken
C30_Witness ==
  /\ pc = "returned"
  /\ chapter = QUOTING_CHAPTER
  /\ topElements # <<>>
  /\ ParseUnder(0, "NONE", <<>>, BASIC_CHAPTER).err.kind = "DisallowedToken"

====
